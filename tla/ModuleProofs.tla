----------------------------- MODULE ModuleProofs -----------------------------
(***************************************************************************)
(* What surrounds a module, for any modules: the callbacks for its         *)
(* results, its parameters and the scenes it takes part in.                *)
(*                                                                         *)
(* Callbacks.  DefaultReachesModules speaks of the moments between two     *)
(* calls and of modules in the table.  Its strengthening holds always: a   *)
(* module whose turn in callback_default is still to come is exempt, and   *)
(* so that a module outside of the table is right when it is inserted, it  *)
(* must have been untouched (Fresh) or be in the hands of a thread         *)
(* (Known), whose reads are still true (Reads) unless it is raced.         *)
(*                                                                         *)
(* Parameters.  No parameter is ever replaced or leaves its limits.        *)
(*                                                                         *)
(* Scenes.  A parent is older than its children (Forest), which all        *)
(* execute different modules (Siblings): paths then lead to one node each, *)
(* and every beginning of a path to a node.  Paths are a recursive         *)
(* function; that it exists, and what it gives, is proved by the least     *)
(* node for which it would fail.                                           *)
(***************************************************************************)
EXTENDS ResultCallbacks, ModuleParameters, SceneTrees, ModuleLoaderProofs

Pointer == Callback \cup {NoCallback}

CallbacksTypeOK ==
    /\ default_callback \in Pointer
    /\ cb \in [Loadable -> Pointer] /\ own \in [Loadable -> Pointer]
    /\ seen \in [Loadable -> Pointer]
    /\ enabler \in [Loadable -> {"none", "test", "read", "register", "done"}]
    /\ inserting \subseteq Loadable /\ raced \subseteq Loadable
    /\ table \in Seq(Loadable) /\ ahead \in Seq(Loadable)
    /\ done \in BOOLEAN
    /\ client \in {"idle", "wait", "default"}

Loaded == inserting \cup ToSet(table)

\* A thread only enables a module that is or will be inserted.
Known ==
    /\ \A m \in Loadable : enabler[m] # "none" => m \in Loaded
    /\ client = "wait" => ahead # <<>> /\ ahead[1] \in Loaded
    /\ client = "default" => ToSet(ahead) \subseteq ToSet(table)

\* Nobody has given a callback to a module that was never loaded.
Fresh ==
    \A m \in Loadable : m \notin Loaded => cb[m] = NoCallback /\ own[m] = NoCallback

\* A new default forgets the callbacks of single modules.
Forgotten == client = "default" => own = [m \in Loadable |-> NoCallback]

\* What an enabling thread has read of the default is still so.
Reads ==
    \A m \in Loadable \ raced :
        /\ enabler[m] = "read" => default_callback # NoCallback
        /\ enabler[m] = "register" =>
                default_callback # NoCallback /\ seen[m] = default_callback

Visited(m) == ~(client = "default" /\ m \in ToSet(ahead))

\* Without a default every module has its own callback, with one all modules
\* have it whose enabling thread is done.
Given ==
    \A m \in HasResult \ raced :
        Visited(m) =>
            IF default_callback = NoCallback THEN cb[m] = own[m]
            ELSE enabler[m] = "done" => cb[m] = default_callback

CallbackInv == CallbacksTypeOK /\ Known /\ Fresh /\ Forgotten /\ Reads /\ Given

-----------------------------------------------------------------------------
(* Sequences as sets *)

LEMMA AppendSet ==
    ASSUME NEW S, NEW s \in Seq(S), NEW e \in S
    PROVE  ToSet(Append(s, e)) = ToSet(s) \cup {e}
<1>1. /\ DOMAIN Append(s, e) = 1..Len(s) + 1 /\ DOMAIN s = 1..Len(s)
      /\ Len(s) \in Nat
      /\ \A i \in 1..Len(s) : Append(s, e)[i] = s[i]
      /\ Append(s, e)[Len(s) + 1] = e
    OBVIOUS
<1>2. 1..Len(s) + 1 = 1..Len(s) \cup {Len(s) + 1}
    BY <1>1
<1>3. QED
    BY <1>1, <1>2 DEF ToSet

LEMMA TailSet ==
    ASSUME NEW S, NEW s \in Seq(S), s # <<>>
    PROVE  /\ Head(s) \in S /\ Tail(s) \in Seq(S)
           /\ Head(s) \in ToSet(s)
           /\ ToSet(Tail(s)) \subseteq ToSet(s)
           /\ ToSet(s) \subseteq ToSet(Tail(s)) \cup {Head(s)}
<1>1. \A i \in DOMAIN s : i # 1 => i - 1 \in DOMAIN Tail(s) /\ s[i] = Tail(s)[i - 1]
    OBVIOUS
<1>2. \A i \in DOMAIN Tail(s) : i + 1 \in DOMAIN s /\ Tail(s)[i] = s[i + 1]
    OBVIOUS
<1>3. ToSet(s) \subseteq ToSet(Tail(s)) \cup {Head(s)}
    <2>1. SUFFICES ASSUME NEW i \in DOMAIN s
                   PROVE  s[i] \in ToSet(Tail(s)) \cup {Head(s)}
        BY DEF ToSet
    <2>2. CASE i = 1
        BY <2>2
    <2>3. CASE i # 1
        BY <2>3, <1>1 DEF ToSet
    <2>4. QED
        BY <2>2, <2>3
<1>4. ToSet(Tail(s)) \subseteq ToSet(s)
    BY <1>2 DEF ToSet
<1>5. QED
    BY <1>3, <1>4 DEF ToSet

-----------------------------------------------------------------------------
(* The steps *)

\* Every variable stays in its type.
LEMMA CallbackTypeStep == CallbacksTypeOK /\ [CallbacksNext]_callbackVars => CallbacksTypeOK'
<1> SUFFICES ASSUME CallbacksTypeOK, [CallbacksNext]_callbackVars
             PROVE  CallbacksTypeOK'
    OBVIOUS
<1> USE CallbackAssumption DEF CallbacksTypeOK, Pointer, WithCallback
<1>1. ASSUME NEW m \in Loadable, LoadBegin(m) PROVE CallbacksTypeOK'
    BY <1>1 DEF LoadBegin
<1>2. ASSUME NEW m \in Loadable, InsertModule(m) PROVE CallbacksTypeOK'
    BY <1>2 DEF InsertModule
<1>3. ASSUME NEW m \in Loadable, TestDefault(m) PROVE CallbacksTypeOK'
    BY <1>3 DEF TestDefault
<1>4. ASSUME NEW m \in Loadable, ReadDefault(m) PROVE CallbacksTypeOK'
    BY <1>4 DEF ReadDefault
<1>5. ASSUME NEW m \in Loadable, RegisterDefault(m) PROVE CallbacksTypeOK'
    BY <1>5 DEF RegisterDefault
<1>6. ASSUME NEW m \in Loadable, NEW c \in Callback, CallbackSet(m, c)
      PROVE  CallbacksTypeOK'
    BY <1>6 DEF CallbackSet
<1>7. CASE LoadEnd
    <2>1. enabler' \in [Loadable -> {"none", "test", "read", "register", "done"}]
        BY <1>7 DEF LoadEnd
    <2>2. ahead' \in Seq(Loadable)
        BY <1>7 DEF LoadEnd
    <2>3. QED
        BY <1>7, <2>1, <2>2 DEF LoadEnd
<1>8. ASSUME NEW c \in Pointer, DefaultBegin(c) PROVE CallbacksTypeOK'
    BY <1>8 DEF DefaultBegin, BeingLoaded
<1>9. CASE DefaultNext
    BY <1>9, TailSet DEF DefaultNext
<1>10. CASE DefaultEnd
    BY <1>10 DEF DefaultEnd
<1>11. CASE UNCHANGED callbackVars
    BY <1>11 DEF callbackVars
<1>12. QED
    BY <1>1, <1>2, <1>3, <1>4, <1>5, <1>6, <1>7, <1>8, <1>9, <1>10, <1>11
    DEF CallbacksNext

\* The threads of the loads keep all parts, and so does the client.
LEMMA CallbackInvStep == CallbackInv /\ [CallbacksNext]_callbackVars => CallbackInv'
<1> SUFFICES ASSUME CallbackInv, [CallbacksNext]_callbackVars PROVE CallbackInv'
    OBVIOUS
<1> CallbacksTypeOK /\ CallbacksTypeOK'
    BY CallbackTypeStep DEF CallbackInv
<1> USE CallbackAssumption
        DEF CallbackInv, CallbacksTypeOK, Pointer, WithCallback, Loaded, Known, Fresh,
            Forgotten, Reads, Visited, Given
<1>1. ASSUME NEW m \in Loadable, LoadBegin(m) PROVE CallbackInv'
    BY <1>1 DEF LoadBegin
<1>2. ASSUME NEW m \in Loadable, InsertModule(m) PROVE CallbackInv'
    <2>1. ToSet(table') = ToSet(table) \cup {m}
        BY <1>2, AppendSet DEF InsertModule
    <2>2. QED
        BY <1>2, <2>1 DEF InsertModule
<1>3. ASSUME NEW m \in Loadable, TestDefault(m) PROVE CallbackInv'
    BY <1>3 DEF TestDefault
<1>4. ASSUME NEW m \in Loadable, ReadDefault(m) PROVE CallbackInv'
    BY <1>4 DEF ReadDefault
<1>5. ASSUME NEW m \in Loadable, RegisterDefault(m) PROVE CallbackInv'
    BY <1>5 DEF RegisterDefault
<1>6. ASSUME NEW m \in Loadable, NEW c \in Callback, CallbackSet(m, c)
      PROVE  CallbackInv'
    BY <1>6 DEF CallbackSet
<1>7. CASE LoadEnd
    BY <1>7 DEF LoadEnd
<1>8. ASSUME NEW c \in Pointer, DefaultBegin(c) PROVE CallbackInv'
    BY <1>8 DEF DefaultBegin, BeingLoaded
<1>9. CASE DefaultNext
    <2>1. /\ ahead \in Seq(Loadable) /\ ahead # <<>>
          /\ ToSet(ahead') \subseteq ToSet(ahead)
          /\ ToSet(ahead) \subseteq ToSet(ahead') \cup {Head(ahead)}
          /\ Head(ahead) \in ToSet(ahead) /\ Head(ahead) \in Loadable
        BY <1>9, TailSet DEF DefaultNext
    <2>2. QED
        BY <1>9, <2>1 DEF DefaultNext
<1>10. CASE DefaultEnd
    <2>1. ToSet(ahead) = {}
        BY <1>10 DEF DefaultEnd, ToSet
    <2>2. QED
        BY <1>10, <2>1 DEF DefaultEnd
<1>11. CASE UNCHANGED callbackVars
    BY <1>11 DEF callbackVars
<1>12. QED
    BY <1>1, <1>2, <1>3, <1>4, <1>5, <1>6, <1>7, <1>8, <1>9, <1>10, <1>11
    DEF CallbacksNext

-----------------------------------------------------------------------------

\* The strengthened invariant holds in every behaviour.
THEOREM CallbackInvariance == CallbacksSpec => []CallbackInv
<1>1. CallbacksInit => CallbackInv
    <2> SUFFICES ASSUME CallbacksInit PROVE CallbackInv
        OBVIOUS
    <2>1. CallbacksTypeOK
        <3>1. table \in Seq(Loadable) /\ ahead \in Seq(Loadable)
            BY DEF CallbacksInit
        <3>2. QED
            BY <3>1, CallbackAssumption DEF CallbacksInit, CallbacksTypeOK, Pointer
    <2>2. Known /\ Fresh /\ Forgotten /\ Reads
        BY DEF CallbacksInit, Known, Fresh, Forgotten, Reads
    <2>3. Given
        BY CallbackAssumption DEF CallbacksInit, Given
    <2>4. QED
        BY <2>1, <2>2, <2>3 DEF CallbackInv
<1>2. CallbackInv /\ [CallbacksNext]_callbackVars => CallbackInv'
    BY CallbackInvStep
<1>3. QED
    BY <1>1, <1>2, PTL DEF CallbacksSpec

\* Between two calls every enabled module of the table has the default
\* callback, or its own without one, unless it was being loaded when the
\* default was set (api.cc:562-570, 673-676).
THEOREM DefaultIsGiven == CallbacksSpec => []DefaultReachesModules
<1>1. CallbackInv => DefaultReachesModules
    BY DEF CallbackInv, Given, Visited, DefaultReachesModules
<1>2. QED
    BY CallbackInvariance, <1>1, PTL

-----------------------------------------------------------------------------
(* The parameters of a module *)

Parameter ==
    [type: {"Numerical", "String"}, min: Int, max: Int, value: Int, verified: BOOLEAN]

\* No parameter has a value outside of its limits (module.cc, parameter.cc).
ValuesAreValid == \A name \in DOMAIN parameters : InLimits(parameters[name])

ParametersInv ==
    /\ \A name \in DOMAIN parameters : parameters[name] \in Parameter
    /\ phase = "constructor" => ~wrapperReady
    /\ ValuesAreValid
    /\ WrapperParametersStand

LEMMA OwnParameters == \A p \in OwnParameter : p \in Parameter
<1> SUFFICES ASSUME NEW p \in OwnParameter PROVE p \in Parameter
    OBVIOUS
<1>1. ASSUME NEW l \in Limit PROVE Numerical(l[1], l[2], l[3]) \in Parameter
    <2>1. l[1] \in Int /\ l[2] \in Int /\ l[3] \in Int
        BY ParameterAssumption
    <2>2. QED
        BY <2>1 DEF Numerical, Parameter
<1>2. ASSUME NEW text \in Text, NEW verified \in BOOLEAN
      PROVE  StringOf(text, verified) \in Parameter
    BY ParameterAssumption DEF StringOf, Parameter
<1>3. QED
    BY <1>1, <1>2 DEF OwnParameter

LEMMA WrapperParameters ==
    /\ WrapperNames \in Seq({"result_timeout", "callbacks_enabled", "period"})
    /\ ToSet(WrapperNames) \subseteq {"result_timeout", "callbacks_enabled", "period"}
    /\ \A name \in ToSet(WrapperNames) :
            WrapperParameter(name) \in Parameter /\ InLimits(WrapperParameter(name))
<1>1. ASSUME NEW name \in {"result_timeout", "callbacks_enabled", "period"}
      PROVE  WrapperParameter(name) \in Parameter /\ InLimits(WrapperParameter(name))
    BY DEF WrapperParameter, Numerical, Parameter, InLimits
<1>2. WrapperNames \in Seq({"result_timeout", "callbacks_enabled", "period"})
    <2>1. CASE ProducesResult
        BY <2>1 DEF WrapperNames
    <2>2. CASE ~ProducesResult
        BY <2>2 DEF WrapperNames
    <2>3. QED
        BY <2>1, <2>2
<1>3. ToSet(WrapperNames) \subseteq {"result_timeout", "callbacks_enabled", "period"}
    BY <1>2 DEF ToSet
<1>4. QED
    BY <1>1, <1>2, <1>3

\* The module registers a parameter, or is refused.
LEMMA RegisterStep ==
    ASSUME ParametersInv, NEW name, NEW p \in Parameter, Register(name, p)
    PROVE  ParametersInv'
<1>1. UNCHANGED <<phase, moduleReady, wrapperReady>>
    BY DEF Register
<1>2. CASE MayRegister(name, p)
    <2>1. /\ InLimits(p) /\ name \notin DOMAIN parameters
          /\ parameters' = [n \in DOMAIN parameters \cup {name} |->
                                IF n = name THEN p ELSE parameters[n]]
        BY <1>2 DEF Register, Insert, MayRegister, Registered, Valid
    <2>2. /\ DOMAIN parameters' = DOMAIN parameters \cup {name} /\ parameters'[name] = p
          /\ \A n \in DOMAIN parameters : parameters'[n] = parameters[n]
        BY <2>1
    <2>3. ValuesAreValid' /\ \A n \in DOMAIN parameters' : parameters'[n] \in Parameter
        BY <2>1, <2>2 DEF ParametersInv, ValuesAreValid
    <2>4. WrapperParametersStand'
        BY <1>1, <2>2 DEF ParametersInv, WrapperParametersStand, Registered
    <2>5. QED
        BY <1>1, <2>3, <2>4 DEF ParametersInv
<1>3. CASE parameters' = parameters
    BY <1>1, <1>3 DEF ParametersInv, ValuesAreValid, WrapperParametersStand, Registered
<1>4. QED
    BY <1>2, <1>3 DEF Register

LEMMA SetStep ==
    ASSUME ParametersInv, NEW name \in DOMAIN parameters, NEW type, NEW value \in SetValue,
           SetParameter(name, type, value)
    PROVE  ParametersInv'
<1> DEFINE p == parameters[name]
           q == [p EXCEPT !.value = value]
<1>1. /\ p \in Parameter /\ InLimits(p) /\ value \in Int /\ Accepts(p, type, value)
      /\ parameters' = [parameters EXCEPT ![name] = q]
      /\ UNCHANGED <<phase, wrapperReady>>
    BY ParameterAssumption DEF SetParameter, ParametersInv, ValuesAreValid
<1>2. q \in Parameter /\ [q EXCEPT !.value = 0] = [p EXCEPT !.value = 0]
    BY ONLY <1>1 DEF Parameter
<1>3. InLimits(q)
    BY ONLY <1>1 DEF InLimits, Accepts, Parameter
<1> HIDE DEF q
<1>4. /\ DOMAIN parameters' = DOMAIN parameters /\ parameters'[name] = q
      /\ \A n \in DOMAIN parameters : n # name => parameters'[n] = parameters[n]
    BY ONLY <1>1, name \in DOMAIN parameters
<1>5. ValuesAreValid' /\ \A n \in DOMAIN parameters' : parameters'[n] \in Parameter
    BY <1>2, <1>3, <1>4 DEF ParametersInv, ValuesAreValid
<1>6. \A n \in DOMAIN parameters :
        [parameters'[n] EXCEPT !.value = 0] = [parameters[n] EXCEPT !.value = 0]
    BY ONLY <1>2, <1>4
<1>7. WrapperParametersStand'
    BY <1>1, <1>4, <1>6 DEF ParametersInv, WrapperParametersStand, Registered
<1>8. QED
    BY <1>1, <1>5, <1>7 DEF ParametersInv

\* The wrapper registers all parameters, or those before the first one that
\* the module has registered.
LEMMA WrapperStep ==
    ASSUME ParametersInv, WrapperInitialize
    PROVE  ParametersInv'
<1> DEFINE I == {i \in 1..Len(WrapperNames) : Registered(WrapperNames[i])}
           count == SelectInSeq(WrapperNames, Registered)
           complete == count = 0
           new == IF complete THEN WrapperNames ELSE SubSeq(WrapperNames, 1, count - 1)
<1>1. /\ parameters' = [n \in DOMAIN parameters \cup ToSet(new) |->
            IF Registered(n) THEN parameters[n] ELSE WrapperParameter(n)]
      /\ wrapperReady' => complete
      /\ phase' # "constructor"
    BY DEF WrapperInitialize
<1>2. count = IF I # {} THEN Min(I) ELSE 0
    BY DEF SelectInSeq
<1>3. I # {} => count \in 1..Len(WrapperNames)
    <2>1. I # {} => Min(I) \in I
        BY LeastElement
    <2>2. QED
        BY <1>2, <2>1
<1> HIDE DEF count
<1>4. complete => \A name \in ToSet(WrapperNames) : ~Registered(name)
    <2>1. I # {} => ~complete
        BY ONLY <1>3
    <2>2. QED
        BY <2>1, WrapperParameters DEF ToSet
<1>5. ToSet(new) \subseteq ToSet(WrapperNames)
    <2>1. CASE complete
        BY <2>1
    <2>2. CASE ~complete
        <3>1. count \in 1..Len(WrapperNames)
            BY <1>2, <1>3, <2>2
        <3>2. QED
            BY <2>2, <3>1, WrapperParameters DEF ToSet
    <2>3. QED
        BY <2>1, <2>2
<1> HIDE DEF new
<1>6. ASSUME NEW n \in DOMAIN parameters'
      PROVE  parameters'[n] \in Parameter /\ InLimits(parameters'[n])
    <2>1. CASE Registered(n)
        BY <1>1, <2>1 DEF ParametersInv, ValuesAreValid, Registered
    <2>2. CASE ~Registered(n)
        <3>1. parameters'[n] = WrapperParameter(n) /\ n \in ToSet(WrapperNames)
            BY <1>1, <1>5, <2>2 DEF Registered
        <3>2. QED
            BY <3>1, WrapperParameters
    <2>3. QED
        BY <2>1, <2>2
<1>7. complete => new = WrapperNames
    BY DEF new
<1>8. ASSUME complete, NEW n \in ToSet(WrapperNames)
      PROVE  n \in DOMAIN parameters' /\ parameters'[n] = WrapperParameter(n)
    BY <1>1, <1>4, <1>7, <1>8
<1>9. ToSet(WrapperNames)' = ToSet(WrapperNames)
    OBVIOUS
<1>10. WrapperParametersStand'
    BY <1>1, <1>8 DEF WrapperParametersStand, Registered
<1>11. QED
    BY <1>1, <1>6, <1>10 DEF ParametersInv, ValuesAreValid

\* A module has the parameters that it and its wrapper could register, each
\* with a value within its limits.
THEOREM ParametersInvariance == ParametersSpec => []ParametersInv
<1>1. ParametersInit => ParametersInv
    BY DEF ParametersInit, ParametersInv, ValuesAreValid, WrapperParametersStand
<1>2. ParametersInv /\ [ParametersNext]_parameterVars => ParametersInv'
    <2> SUFFICES ASSUME ParametersInv, [ParametersNext]_parameterVars PROVE ParametersInv'
        OBVIOUS
    <2>1. CASE UNCHANGED parameterVars
        BY <2>1 DEF parameterVars, ParametersInv, ValuesAreValid, WrapperParametersStand,
            Registered
    <2>2. CASE RegisterOwn
        <3>1. PICK name \in OwnName, p \in OwnParameter : Register(name, p)
            BY <2>2 DEF RegisterOwn
        <3>2. QED
            BY <3>1, OwnParameters, RegisterStep
    <2>3. CASE WrapperInitialize
        BY <2>3, WrapperStep
    <2>4. CASE InitReturns
        BY <2>4 DEF InitReturns, ParametersInv, ValuesAreValid, WrapperParametersStand,
            Registered
    <2>5. ASSUME NEW name \in DOMAIN parameters, NEW type, NEW value \in SetValue,
                 SetParameter(name, type, value)
          PROVE  ParametersInv'
        BY <2>5, SetStep
    <2>6. QED
        BY <2>1, <2>2, <2>3, <2>4, <2>5 DEF ParametersNext
<1>3. QED
    BY <1>1, <1>2, PTL DEF ParametersSpec

\* Whatever a module registers itself, once it is initialized it has the
\* parameters of its wrapper with the wrapper's limits (module_wrapper.hh:131-140).
THEOREM WrapperParametersAlwaysStand == ParametersSpec => []WrapperParametersStand
<1>1. ParametersInv => WrapperParametersStand
    BY DEF ParametersInv
<1>2. QED
    BY <1>1, ParametersInvariance, PTL

-----------------------------------------------------------------------------
(* The trees of the scenes: induction *)

LEMMA Induction ==
    ASSUME NEW S, 0 \in S, \A n \in Nat : n \in S => n + 1 \in S
    PROVE  Nat \subseteq S
<1>1. SUFFICES ASSUME Nat \ S # {} PROVE FALSE
    OBVIOUS
<1>2. PICK x \in Nat \ S : \A y \in Nat \ S : x <= y
    BY <1>1, Least
<1>3. x - 1 \in Nat /\ x - 1 \in S
    BY <1>2
<1>4. QED
    BY <1>2, <1>3

-----------------------------------------------------------------------------
(* Sequences *)

LEMMA AppendFacts ==
    ASSUME NEW s \in Seq(NodeModule), NEW x \in NodeModule
    PROVE  /\ Append(s, x) \in Seq(NodeModule) /\ Append(s, x) # <<>>
           /\ Len(Append(s, x)) = Len(s) + 1
           /\ Append(s, x)[Len(s) + 1] = x
           /\ \A i \in 1..Len(s) : Append(s, x)[i] = s[i]
OBVIOUS

LEMMA SameSequence ==
    ASSUME NEW s \in Seq(NodeModule), NEW t \in Seq(NodeModule), Len(s) = Len(t),
           \A i \in 1..Len(s) : s[i] = t[i]
    PROVE  s = t
OBVIOUS

LEMMA AppendInjective ==
    ASSUME NEW s \in Seq(NodeModule), NEW t \in Seq(NodeModule), NEW x \in NodeModule, NEW y \in NodeModule,
           Append(s, x) = Append(t, y)
    PROVE  s = t /\ x = y
<1>1. Len(s) = Len(t)
    BY AppendFacts
<1>2. \A i \in 1..Len(s) : s[i] = t[i]
    BY <1>1, AppendFacts
<1>3. s = t
    BY <1>1, <1>2, SameSequence
<1>4. QED
    BY <1>1, AppendFacts

LEMMA PrefixFacts ==
    ASSUME NEW s \in Seq(NodeModule), NEW t \in Seq(NodeModule)
    PROVE  IsPrefix(s, t) <=> Len(s) <= Len(t) /\ \A i \in 1..Len(s) : s[i] = t[i]
<1>1. ASSUME Len(s) <= Len(t)
      PROVE  SubSeq(s, 1, Len(s)) = SubSeq(t, 1, Len(s)) <=> \A i \in 1..Len(s) : s[i] = t[i]
    <2>1. /\ SubSeq(s, 1, Len(s)) \in Seq(NodeModule) /\ Len(SubSeq(s, 1, Len(s))) = Len(s)
          /\ \A i \in 1..Len(s) : SubSeq(s, 1, Len(s))[i] = s[i]
        OBVIOUS
    <2>2. /\ SubSeq(t, 1, Len(s)) \in Seq(NodeModule) /\ Len(SubSeq(t, 1, Len(s))) = Len(s)
          /\ \A i \in 1..Len(s) : SubSeq(t, 1, Len(s))[i] = t[i]
        BY <1>1
    <2> DEFINE a == SubSeq(s, 1, Len(s)) b == SubSeq(t, 1, Len(s))
    <2> HIDE DEF a, b
    <2>3. a \in Seq(NodeModule) /\ b \in Seq(NodeModule) /\ Len(a) = Len(b) /\ Len(a) = Len(s)
        BY <2>1, <2>2 DEF a, b
    <2>4. \A i \in 1..Len(s) : a[i] = s[i] /\ b[i] = t[i]
        BY <2>1, <2>2 DEF a, b
    <2>5. a = b <=> \A i \in 1..Len(s) : s[i] = t[i]
        <3>1. ASSUME a = b PROVE \A i \in 1..Len(s) : s[i] = t[i]
            BY <2>4, <3>1
        <3>2. ASSUME \A i \in 1..Len(s) : s[i] = t[i] PROVE a = b
            BY <2>3, <2>4, <3>2, SameSequence
        <3>3. QED
            BY <3>1, <3>2
    <2>6. QED
        BY <2>5 DEF a, b
<1>2. QED
    BY <1>1 DEF IsPrefix

LEMMA PrefixAppend ==
    ASSUME NEW s \in Seq(NodeModule), NEW t \in Seq(NodeModule), NEW x \in NodeModule
    PROVE  IsPrefix(s, Append(t, x)) <=> IsPrefix(s, t) \/ s = Append(t, x)
<1> DEFINE u == Append(t, x)
<1>1. u \in Seq(NodeModule) /\ Len(u) = Len(t) + 1 /\ \A i \in 1..Len(t) : u[i] = t[i]
    BY AppendFacts
<1> HIDE DEF u
<1>2. IsPrefix(s, u) <=> Len(s) <= Len(u) /\ \A i \in 1..Len(s) : s[i] = u[i]
    BY <1>1, PrefixFacts
<1>3. IsPrefix(s, t) <=> Len(s) <= Len(t) /\ \A i \in 1..Len(s) : s[i] = t[i]
    BY PrefixFacts
<1>4. ASSUME IsPrefix(s, u), Len(s) = Len(u) PROVE s = u
    BY <1>1, <1>2, <1>4, SameSequence
<1>5. QED
    BY <1>1, <1>2, <1>3, <1>4 DEF u

-----------------------------------------------------------------------------
(* Paths *)

\* A forest: the parent of a node is older.
Forest(N, L) == \A n \in 1..L : N[n].parent \in 0..n - 1 /\ N[n].module \in NodeModule

IsPath(N, L, f) ==
    f = [n \in 0..L |->
            IF n = 0 THEN <<>> ELSE Append(f[N[n].parent], N[n].module)]

LEMMA PathExists ==
    ASSUME NEW N, NEW L \in Nat, Forest(N, L)
    PROVE  \E f \in [0..L -> Seq(NodeModule)] : IsPath(N, L, f)
<1> DEFINE Upto(m, f) ==
        f[0] = <<>> /\ \A n \in 1..m : f[n] = Append(f[N[n].parent], N[n].module)
<1> DEFINE Defined(m) == \E f \in [0..m -> Seq(NodeModule)] : Upto(m, f)
<1> DEFINE S == {m \in Nat : m <= L => Defined(m)}
<1> HIDE DEF Defined
<1>1. 0 \in S
    <2>1. [n \in 0..0 |-> <<>>] \in [0..0 -> Seq(NodeModule)]
          /\ Upto(0, [n \in 0..0 |-> <<>>])
        OBVIOUS
    <2>2. QED
        BY <2>1 DEF Defined
<1>2. ASSUME NEW m \in Nat, Defined(m), m + 1 <= L
      PROVE  Defined(m + 1)
    <2>1. \A n \in 1..m + 1 : N[n].parent \in 0..n - 1 /\ N[n].module \in NodeModule
        BY <1>2 DEF Forest
    <2>2. PICK f \in [0..m -> Seq(NodeModule)] : Upto(m, f)
        BY <1>2 DEF Defined
    <2> DEFINE last == Append(f[N[m + 1].parent], N[m + 1].module)
               g == [n \in 0..m + 1 |-> IF n = m + 1 THEN last ELSE f[n]]
    <2>3. last \in Seq(NodeModule)
        BY <2>1
    <2>4. g \in [0..m + 1 -> Seq(NodeModule)]
        BY <2>3
    <2>5. g[m + 1] = last /\ \A n \in 0..m : g[n] = f[n]
        OBVIOUS
    <2> HIDE DEF g, last
    <2>6. g[0] = <<>>
        BY <2>2, <2>5
    <2>7. ASSUME NEW n \in 1..m + 1 PROVE g[n] = Append(g[N[n].parent], N[n].module)
        <3>1. N[n].parent \in 0..m /\ g[N[n].parent] = f[N[n].parent]
            BY <2>1, <2>5
        <3>2. CASE n = m + 1
            BY <2>5, <3>1, <3>2 DEF last
        <3>3. CASE n \in 1..m
            <4>1. g[n] = f[n]
                BY <2>5, <3>3
            <4>2. f[n] = Append(f[N[n].parent], N[n].module)
                BY <2>2, <3>3
            <4>3. QED
                BY <3>1, <4>1, <4>2
        <3>4. QED
            BY <3>2, <3>3
    <2>8. QED
        BY <2>4, <2>6, <2>7 DEF Defined
<1>3. \A m \in Nat : m \in S => m + 1 \in S
    BY <1>2
<1> HIDE DEF S
<1>4. L \in S
    BY <1>1, <1>3, Induction
<1>5. Defined(L)
    BY <1>4 DEF S
<1>6. PICK f \in [0..L -> Seq(NodeModule)] : Upto(L, f)
    BY <1>5 DEF Defined
<1>7. IsPath(N, L, f)
    BY <1>6 DEF IsPath
<1>8. QED
    BY <1>7

LEMMA IsPathFacts ==
    ASSUME NEW N, NEW L \in Nat, NEW f, IsPath(N, L, f)
    PROVE  /\ f = [n \in 0..L |-> f[n]]
           /\ f[0] = <<>>
           /\ \A n \in 1..L : f[n] = Append(f[N[n].parent], N[n].module)
<1> DEFINE step(n) == IF n = 0 THEN <<>> ELSE Append(f[N[n].parent], N[n].module)
<1>1. f = [n \in 0..L |-> step(n)]
    BY DEF IsPath
<1> HIDE DEF step
<1>2. f = [n \in 0..L |-> f[n]] /\ \A n \in 0..L : f[n] = step(n)
    BY <1>1
<1>3. QED
    BY <1>2 DEF step

\* The path of a node depends on its ancestors only.
LEMMA SamePath ==
    ASSUME NEW N, NEW M, NEW K \in Nat, NEW L \in Nat, K <= L, Forest(N, K),
           \A n \in 1..K : M[n].parent = N[n].parent /\ M[n].module = N[n].module,
           NEW f, IsPath(N, K, f), NEW g, IsPath(M, L, g)
    PROVE  \A n \in 0..K : f[n] = g[n]
<1> DEFINE T == {n \in 0..K : f[n] # g[n]}
<1>1. SUFFICES ASSUME T # {} PROVE FALSE
    OBVIOUS
<1>2. PICK n \in T : \A k \in T : n <= k
    <2>1. T \subseteq Nat
        OBVIOUS
    <2> HIDE DEF T
    <2>2. QED
        BY <1>1, <2>1, Least
<1>3. n \in 1..K /\ f[n] # g[n]
    BY <1>2, IsPathFacts
<1>4. N[n].parent \in 0..n - 1
    BY <1>3 DEF Forest
<1>5. f[N[n].parent] = g[N[n].parent]
    BY <1>2, <1>4
<1>6. f[n] = Append(f[N[n].parent], N[n].module)
    BY <1>3, IsPathFacts
<1>7. g[n] = Append(g[N[n].parent], N[n].module)
    <2>1. n \in 1..L /\ M[n].parent = N[n].parent /\ M[n].module = N[n].module
        BY <1>3
    <2>2. g[n] = Append(g[M[n].parent], M[n].module)
        BY <2>1, IsPathFacts
    <2>3. QED
        BY <2>1, <2>2
<1>8. QED
    BY <1>3, <1>5, <1>6, <1>7

\* What a path is made of.
Steps(N, L, path) ==
    /\ path \in [0..L -> Seq(NodeModule)]
    /\ path[0] = <<>>
    /\ \A n \in 1..L :
        /\ N[n].parent \in 0..n - 1 /\ N[n].parent \in 0..L
        /\ N[n].module \in NodeModule
        /\ path[N[n].parent] \in Seq(NodeModule)
        /\ path[n] = Append(path[N[n].parent], N[n].module)
        /\ path[n] # <<>>

LEMMA PathFacts ==
    ASSUME NEW N, NEW L \in Nat, Forest(N, L), NEW path, IsPath(N, L, path)
    PROVE  Steps(N, L, path)
<1>1. PICK f \in [0..L -> Seq(NodeModule)] : IsPath(N, L, f)
    BY PathExists
<1>2. \A n \in 0..L : f[n] = path[n]
    BY <1>1, SamePath
<1>3. path = [n \in 0..L |-> path[n]]
    BY IsPathFacts
<1>4. path \in [0..L -> Seq(NodeModule)]
    BY <1>2, <1>3
<1>5. ASSUME NEW n \in 1..L
      PROVE  /\ N[n].parent \in 0..n - 1 /\ N[n].parent \in 0..L
             /\ N[n].module \in NodeModule
             /\ path[N[n].parent] \in Seq(NodeModule)
             /\ path[n] = Append(path[N[n].parent], N[n].module)
             /\ path[n] # <<>>
    <2>1. /\ N[n].parent \in 0..n - 1 /\ N[n].parent \in 0..L
          /\ N[n].module \in NodeModule
        BY DEF Forest
    <2>2. path[N[n].parent] \in Seq(NodeModule)
        BY <1>4, <2>1
    <2>3. path[n] = Append(path[N[n].parent], N[n].module)
        BY IsPathFacts
    <2>4. Append(path[N[n].parent], N[n].module) # <<>>
        BY <2>1, <2>2, AppendFacts
    <2>5. QED
        BY <2>1, <2>2, <2>3, <2>4
<1>6. path[0] = <<>>
    BY IsPathFacts
<1>7. QED
    BY <1>4, <1>5, <1>6 DEF Steps

-----------------------------------------------------------------------------
(* The nodes of a forest whose siblings execute different modules *)

Siblings(N, L) ==
    \A i, j \in 1..L :
        N[i].parent = N[j].parent /\ N[i].module = N[j].module => i = j

LEMMA PathInjective ==
    ASSUME NEW N, NEW L \in Nat, Forest(N, L), Siblings(N, L),
           NEW path, IsPath(N, L, path)
    PROVE  \A i, j \in 0..L : path[i] = path[j] => i = j
<1> DEFINE T == {i \in 0..L : \E j \in 0..L : path[i] = path[j] /\ i # j}
<1>1. SUFFICES ASSUME T # {} PROVE FALSE
    OBVIOUS
<1>2. PICK i \in T : \A k \in T : i <= k
    <2>1. T \subseteq Nat
        OBVIOUS
    <2> HIDE DEF T
    <2>2. QED
        BY <1>1, <2>1, Least
<1>3. PICK j \in 0..L : path[i] = path[j] /\ i # j
    BY <1>2
<1>4. i \in 0..L /\ \A k \in 0..L, l \in 0..L : path[k] = path[l] /\ k # l => i <= k
    BY <1>2
<1> HIDE DEF T
<1>5. i < j
    BY <1>3, <1>4
<1>6. Steps(N, L, path)
    BY PathFacts
<1>7. i \in 1..L /\ j \in 1..L
    BY <1>3, <1>4, <1>5, <1>6 DEF Steps
<1> DEFINE p == N[i].parent q == N[j].parent
<1>8. /\ path[p] \in Seq(NodeModule) /\ N[i].module \in NodeModule
      /\ path[q] \in Seq(NodeModule) /\ N[j].module \in NodeModule
    BY <1>6, <1>7 DEF Steps
<1>9. Append(path[p], N[i].module) = Append(path[q], N[j].module)
    BY <1>3, <1>6, <1>7 DEF Steps
<1>10. p \in 0..L /\ q \in 0..L /\ p < i
    <2>1. p \in 0..i - 1 /\ p \in 0..L
        BY <1>6, <1>7 DEF Steps
    <2>2. q \in 0..L
        BY <1>6, <1>7 DEF Steps
    <2> HIDE DEF p, q
    <2>3. QED
        BY <1>7, <2>1, <2>2
<1> HIDE DEF p, q
<1>11. path[p] = path[q] /\ N[i].module = N[j].module
    <2>1. \A s, t \in Seq(NodeModule), x, y \in NodeModule :
                Append(s, x) = Append(t, y) => s = t /\ x = y
        BY AppendInjective
    <2>2. QED
        BY <1>8, <1>9, <2>1
<1>12. p = q
    BY <1>4, <1>10, <1>11
<1>13. QED
    BY <1>3, <1>7, <1>11, <1>12 DEF Siblings, p, q

\* A node for each beginning of a path.
LEMMA PrefixIsNode ==
    ASSUME NEW N, NEW L \in Nat, Forest(N, L), NEW path, IsPath(N, L, path)
    PROVE  \A n \in 0..L : \A s \in Seq(NodeModule) :
                IsPrefix(s, path[n]) => \E k \in 0..L : path[k] = s
<1> DEFINE Found(n) == \A s \in Seq(NodeModule) :
                        IsPrefix(s, path[n]) => \E k \in 0..L : path[k] = s
<1> DEFINE T == {n \in 0..L : ~Found(n)}
<1>1. SUFFICES ASSUME T # {} PROVE FALSE
    OBVIOUS
<1> HIDE DEF Found
<1>2. PICK n \in T : \A k \in T : n <= k
    <2>1. T \subseteq Nat
        OBVIOUS
    <2> HIDE DEF T
    <2>2. QED
        BY <1>1, <2>1, Least
<1>3. Steps(N, L, path)
    BY PathFacts
<1>4. PICK s \in Seq(NodeModule) : IsPrefix(s, path[n]) /\ ~\E k \in 0..L : path[k] = s
    BY <1>2 DEF Found
<1>5. CASE n = 0
    <2>1. path[0] = <<>> /\ 0 \in 0..L
        BY <1>3 DEF Steps
    <2>2. IsPrefix(s, <<>>) /\ <<>> \in Seq(NodeModule)
        BY <1>4, <1>5, <2>1
    <2>3. Len(s) <= 0
        BY <2>2, PrefixFacts
    <2>4. s = <<>>
        BY <2>3
    <2>5. QED
        BY <1>4, <2>1, <2>4
<1>6. CASE n \in 1..L
    <2> DEFINE p == N[n].parent
    <2>1. p \in 0..n - 1 /\ p \in 0..L /\ path[p] \in Seq(NodeModule)
          /\ N[n].module \in NodeModule
        BY <1>3, <1>6 DEF Steps
    <2>2. path[n] = Append(path[p], N[n].module)
        BY <1>3, <1>6 DEF Steps
    <2> HIDE DEF p
    <2>3. IsPrefix(s, path[p]) \/ s = path[n]
        BY <1>4, <2>1, <2>2, PrefixAppend
    <2>4. p \notin T
        BY <1>2, <2>1
    <2>5. QED
        BY <1>4, <1>6, <2>1, <2>3, <2>4 DEF Found
<1>7. QED
    BY <1>2, <1>5, <1>6

\* A path that goes on below a node is the one of a child of it.
LEMMA ChildOfPath ==
    ASSUME NEW N, NEW L \in Nat, Forest(N, L), Siblings(N, L),
           NEW path, IsPath(N, L, path),
           NEW p \in 0..L, NEW m \in NodeModule, NEW k \in 0..L,
           path[k] = Append(path[p], m)
    PROVE  k \in 1..L /\ N[k].parent = p /\ N[k].module = m
<1>1. Steps(N, L, path)
    BY PathFacts
<1>2. path[p] \in Seq(NodeModule) /\ path[0] = <<>>
    BY <1>1 DEF Steps
<1>3. Append(path[p], m) # <<>>
    BY <1>2
<1>4. k \in 1..L
    BY <1>2, <1>3
<1> DEFINE q == N[k].parent n == N[k].module
<1>5. q \in 0..L /\ path[q] \in Seq(NodeModule) /\ n \in NodeModule
    BY <1>1, <1>4 DEF Steps
<1>6. Append(path[q], n) = Append(path[p], m)
    BY <1>1, <1>4 DEF Steps
<1> DEFINE a == path[q] b == path[p]
<1>7. a = b /\ n = m
    <2>1. a \in Seq(NodeModule) /\ b \in Seq(NodeModule) /\ n \in NodeModule
        BY <1>2, <1>5
    <2>2. Append(a, n) = Append(b, m)
        BY <1>6
    <2> HIDE DEF a, b, n
    <2>3. QED
        BY <2>1, <2>2, AppendInjective
<1> HIDE DEF q, n
<1>8. q = p
    BY <1>5, <1>7, PathInjective
<1>9. QED
    BY <1>4, <1>7, <1>8 DEF q, n

-----------------------------------------------------------------------------
(* The inductive invariant *)

SceneNode ==
    [module: NodeModule, parent: Nat, scenes: SUBSET SceneId, stamp: Nat]

\* A node knows the scenes that begin with its path.
Knows(N, L, path, chains) ==
    \A n \in 1..L, s \in SceneId :
        s \in N[n].scenes <=> s \in DOMAIN chains /\ IsPrefix(path[n], chains[s])

SceneInv ==
    /\ nodes \in Seq(SceneNode)
    /\ Forest(nodes, Len(nodes)) /\ Siblings(nodes, Len(nodes))
    /\ DOMAIN leaf \subseteq SceneId /\ DOMAIN chain = DOMAIN leaf
    /\ \A s \in DOMAIN leaf : leaf[s] \in 0..Len(nodes) /\ chain[s] \in Seq(NodeModule)
    /\ SceneIsPath
    /\ Knows(nodes, Len(nodes), Path, chain)

LEMMA PathDefined ==
    ASSUME nodes \in Seq(SceneNode), Forest(nodes, Len(nodes))
    PROVE  IsPath(nodes, Len(nodes), Path)
<1>1. PICK f : IsPath(nodes, Len(nodes), f)
    BY PathExists
<1>2. Path = CHOOSE q : IsPath(nodes, Len(nodes), q)
    BY DEF Path, IsPath
<1>3. QED
    BY <1>1, <1>2

LEMMA NextPathDefined ==
    ASSUME nodes' \in Seq(SceneNode), Forest(nodes', Len(nodes'))
    PROVE  IsPath(nodes', Len(nodes'), Path')
<1>1. PICK f : IsPath(nodes', Len(nodes'), f)
    BY PathExists
<1>2. Path' = CHOOSE q : IsPath(nodes', Len(nodes'), q)
    BY DEF Path, IsPath
<1>3. QED
    BY <1>1, <1>2

\* The nodes keep their places, and so their paths.
LEMMA PathKept ==
    ASSUME SceneInv, nodes' \in Seq(SceneNode), Len(nodes') >= Len(nodes),
           \A n \in 1..Len(nodes) :
                nodes'[n].parent = nodes[n].parent /\ nodes'[n].module = nodes[n].module,
           Forest(nodes', Len(nodes'))
    PROVE  /\ IsPath(nodes, Len(nodes), Path) /\ IsPath(nodes', Len(nodes'), Path')
           /\ \A n \in 0..Len(nodes) : Path'[n] = Path[n]
<1>1. IsPath(nodes, Len(nodes), Path)
    BY PathDefined DEF SceneInv
<1>2. IsPath(nodes', Len(nodes'), Path')
    BY NextPathDefined
<1>3. Len(nodes) \in Nat /\ Len(nodes') \in Nat /\ Forest(nodes, Len(nodes))
    BY DEF SceneInv
<1>4. \A n \in 0..Len(nodes) : Path[n] = Path'[n]
    BY <1>1, <1>2, <1>3, SamePath
<1>5. QED
    BY <1>1, <1>2, <1>4

\* Scene s goes on with m below node p, the end of the path c.
LEMMA ExtendStep ==
    ASSUME SceneInv, NEW s \in SceneId, NEW m \in NodeModule,
           NEW p \in 0..Len(nodes), NEW c \in Seq(NodeModule), Path[p] = c,
           s \in DOMAIN chain => c = chain[s], s \notin DOMAIN chain => c = <<>>,
           Extend(s, m, p), chain' = With(chain, s, Append(c, m))
    PROVE  SceneInv'
<1> DEFINE L == Len(nodes)
           d == Append(c, m)
<1>1. /\ L \in Nat /\ nodes \in Seq(SceneNode) /\ Forest(nodes, L) /\ Siblings(nodes, L)
      /\ DOMAIN nodes = 1..L /\ p \in 0..L /\ Knows(nodes, L, Path, chain)
    BY DEF SceneInv
<1>2. IsPath(nodes, L, Path)
    BY <1>1, PathDefined
<1>3. d \in Seq(NodeModule)
    OBVIOUS
<1>4. /\ DOMAIN chain' = DOMAIN chain \cup {s} /\ chain'[s] = d
      /\ \A x \in DOMAIN chain : x # s => chain'[x] = chain[x]
    BY DEF With
<1> HIDE DEF L
<1>5. Steps(nodes, L, Path)
    BY <1>1, <1>2, PathFacts
<1>6. ASSUME NEW k \in 1..L
      PROVE  IsPrefix(Path[k], d) <=> s \in nodes[k].scenes \/ Path[k] = d
    <2> DEFINE t == Path[k]
    <2>1. t \in Seq(NodeModule) /\ t # <<>>
        <3>1. k \in 0..L /\ k \in 1..L
            BY <1>1
        <3>2. QED
            BY <1>5, <3>1 DEF Steps
    <2>2. s \in nodes[k].scenes <=> s \in DOMAIN chain /\ IsPrefix(t, chain[s])
        BY ONLY <1>1, k \in 1..L, s \in SceneId, Zenon DEF Knows
    <2> HIDE DEF t
    <2>3. IsPrefix(t, d) <=> IsPrefix(t, c) \/ t = d
        BY <2>1, PrefixAppend
    <2>4. CASE s \in DOMAIN chain
        BY <2>2, <2>3, <2>4 DEF t
    <2>5. CASE s \notin DOMAIN chain
        <3>1. Len(c) = 0 /\ Len(t) > 0
            BY <2>1, <2>5
        <3>2. ~IsPrefix(t, c)
            BY <2>1, <3>1 DEF IsPrefix
        <3>3. QED
            BY <2>2, <2>3, <2>5, <3>2 DEF t
    <2>6. QED
        BY <2>4, <2>5
<1>7. ASSUME NEW k \in 0..L, Path[k] = d
      PROVE  k \in Children(p, m)
    <2>1. \A i, j \in 0..L, x \in NodeModule : Path[j] = Append(Path[i], x) =>
                j \in 1..L /\ nodes[j].parent = i /\ nodes[j].module = x
        BY <1>1, <1>2, ChildOfPath
    <2>2. Path[k] = Append(Path[p], m)
        BY <1>7
    <2>3. p \in 0..L
        BY <1>1
    <2>4. k \in 1..L /\ nodes[k].parent = p /\ nodes[k].module = m
        <3>1. Path[k] = Append(Path[p], m) =>
                k \in 1..L /\ nodes[k].parent = p /\ nodes[k].module = m
            BY ONLY <2>1, <2>3, k \in 0..L, m \in NodeModule
        <3>2. QED
            BY <2>2, <3>1
    <2>5. QED
        BY <1>1, <2>4 DEF Children
<1>8. ASSUME NEW n \in 1..Len(nodes'), leaf' = With(leaf, s, n), Path'[n] = d,
             nodes' \in Seq(SceneNode), Len(nodes') >= L,
             Forest(nodes', Len(nodes')), Siblings(nodes', Len(nodes')),
             \A k \in 0..L : Path'[k] = Path[k],
             Knows(nodes', Len(nodes'), Path', chain')
      PROVE  SceneInv'
    <2>1. /\ DOMAIN leaf' = DOMAIN leaf \cup {s} /\ leaf'[s] = n
          /\ \A x \in DOMAIN leaf : x # s => leaf'[x] = leaf[x]
        BY <1>8 DEF With
    <2>2. /\ DOMAIN leaf \subseteq SceneId /\ DOMAIN chain = DOMAIN leaf
          /\ \A x \in DOMAIN leaf : leaf[x] \in 0..L /\ chain[x] \in Seq(NodeModule)
          /\ \A x \in DOMAIN leaf : Path[leaf[x]] = chain[x]
        BY DEF SceneInv, SceneIsPath, L
    <2>3. Len(nodes') \in Nat
        BY <1>8
    <2>4. ASSUME NEW x \in DOMAIN leaf'
          PROVE  /\ leaf'[x] \in 0..Len(nodes') /\ chain'[x] \in Seq(NodeModule)
                 /\ Path'[leaf'[x]] = chain'[x]
        <3>1. CASE x = s
            <4>1. leaf'[x] \in 0..Len(nodes')
                BY <1>8, <2>1, <3>1
            <4>2. chain'[x] \in Seq(NodeModule) /\ Path'[leaf'[x]] = chain'[x]
                BY <1>3, <1>4, <1>8, <2>1, <3>1
            <4>3. QED
                BY <4>1, <4>2
        <3>2. CASE x # s
            <4>1. /\ x \in DOMAIN leaf /\ leaf'[x] = leaf[x] /\ chain'[x] = chain[x]
                  /\ leaf[x] \in 0..L
                BY <1>4, <2>1, <2>2, <3>2
            <4>2. leaf'[x] \in 0..Len(nodes')
                BY <1>1, <1>8, <2>3, <4>1
            <4>3. Path'[leaf'[x]] = chain'[x]
                <5> HIDE DEF d
                <5>1. Path'[leaf[x]] = Path[leaf[x]]
                    BY ONLY <1>8, <4>1
                <5>2. Path[leaf[x]] = chain[x]
                    BY ONLY <2>2, <4>1
                <5>3. QED
                    BY ONLY <4>1, <5>1, <5>2
            <4>4. QED
                BY <2>2, <4>1, <4>2, <4>3
        <3>3. QED
            BY <3>1, <3>2
    <2>5. DOMAIN leaf' \subseteq SceneId /\ DOMAIN chain' = DOMAIN leaf'
        BY <1>4, <2>1, <2>2
    <2>6. SceneIsPath'
        BY <2>4 DEF SceneIsPath
    <2>7. QED
        BY <1>8, <2>4, <2>5, <2>6 DEF SceneInv
<1>9. CASE Reusable(p, m) # {}
    <2>1. PICK n \in Reusable(p, m) : Reuse(n, s)
        BY <1>9 DEF Extend
    <2>2. n \in 1..L /\ nodes[n].parent = p /\ nodes[n].module = m
        BY <1>1, <2>1 DEF Reusable, Children
    <2>3. /\ nodes' = [nodes EXCEPT ![n].scenes = @ \cup {s}]
          /\ leaf' = With(leaf, s, n)
        BY <2>1 DEF Reuse
    <2> DEFINE r == [nodes[n] EXCEPT !.scenes = @ \cup {s}]
    <2>a. \A k \in 1..L : nodes[k] \in SceneNode
        BY ONLY <1>1
    <2>b. r \in SceneNode
        BY <2>2, <2>a DEF SceneNode
    <2>c. /\ r.parent = nodes[n].parent /\ r.module = nodes[n].module
          /\ r.scenes = nodes[n].scenes \cup {s}
        BY <2>2, <2>a DEF SceneNode
    <2>d. nodes' = [nodes EXCEPT ![n] = r]
        BY ONLY <2>3
    <2> HIDE DEF r
    <2>4. nodes' \in Seq(SceneNode) /\ Len(nodes') = L /\ DOMAIN nodes' = 1..L
        BY ONLY <1>1, <2>2, <2>b, <2>d DEF L
    <2>e. \A k \in 1..L : nodes'[k] = IF k = n THEN r ELSE nodes[k]
        BY ONLY <1>1, <2>2, <2>d
    <2>5. \A k \in 1..L :
            /\ nodes'[k].parent = nodes[k].parent /\ nodes'[k].module = nodes[k].module
            /\ nodes'[k].scenes = IF k = n THEN nodes[k].scenes \cup {s} ELSE nodes[k].scenes
        BY ONLY <2>c, <2>e
    <2>6. Forest(nodes', L) /\ Siblings(nodes', L)
        BY <1>1, <2>5 DEF Forest, Siblings
    <2>7. \A k \in 0..L : Path'[k] = Path[k]
        <3>1. /\ Len(nodes') >= Len(nodes) /\ Forest(nodes', Len(nodes'))
              /\ \A k \in 1..Len(nodes) :
                    nodes'[k].parent = nodes[k].parent /\ nodes'[k].module = nodes[k].module
            <4>1. Len(nodes') = L /\ L \in Nat
                BY ONLY <1>1, <2>4
            <4>2. Forest(nodes', Len(nodes'))
                BY ONLY <2>6, <4>1
            <4>3. Len(nodes') >= Len(nodes)
                BY ONLY <4>1 DEF L
            <4>4. QED
                BY ONLY <2>5, <4>2, <4>3 DEF L
        <3>2. \A k \in 0..Len(nodes) : Path'[k] = Path[k]
            BY <2>4, <3>1, PathKept
        <3>3. QED
            BY ONLY <3>2 DEF L
    <2>8. Path[n] = d
        BY <1>5, <2>2 DEF Steps
    <2>9. Path'[n] = d
        BY ONLY <1>1, <2>2, <2>7, <2>8
    <2>10. ASSUME NEW k \in 1..L PROVE Path[k] = d <=> k = n
        <3>1. Path[k] = d => k \in Children(p, m)
            BY ONLY <1>7, k \in 1..L, <1>1
        <3>2. Path[k] = d => k = n
            BY <1>1, <2>2, <3>1 DEF Children, Siblings
        <3>3. QED
            BY ONLY <2>8, <3>2
    <2>11. ASSUME NEW k \in 1..L, NEW x \in SceneId
           PROVE  x \in nodes'[k].scenes <=> x \in DOMAIN chain' /\ IsPrefix(Path'[k], chain'[x])
        <3>1. Path'[k] = Path[k]
            BY ONLY <1>1, <2>7, k \in 1..L
        <3>2. x \in nodes[k].scenes <=> x \in DOMAIN chain /\ IsPrefix(Path[k], chain[x])
            BY ONLY <1>1, k \in 1..L, x \in SceneId DEF Knows
        <3>3. CASE x = s
            <4>1. s \in nodes'[k].scenes <=> k = n \/ s \in nodes[k].scenes
                BY ONLY <2>5, k \in 1..L
            <4>2. IsPrefix(Path[k], d) <=> s \in nodes[k].scenes \/ Path[k] = d
                BY ONLY <1>6, k \in 1..L
            <4>3. QED
                BY ONLY <1>4, <2>10, <3>1, <3>3, <4>1, <4>2
        <3>4. CASE x # s
            <4>1. x \in nodes'[k].scenes <=> x \in nodes[k].scenes
                BY ONLY <2>5, k \in 1..L, <3>4
            <4>2. x \in DOMAIN chain' <=> x \in DOMAIN chain
                BY ONLY <1>4, <3>4
            <4>3. x \in DOMAIN chain => chain'[x] = chain[x]
                BY ONLY <1>4, <3>4
            <4>4. QED
                BY ONLY <3>1, <3>2, <4>1, <4>2, <4>3
        <3>5. QED
            BY <3>3, <3>4
    <2>12. Knows(nodes', L, Path', chain')
        BY ONLY <2>11 DEF Knows
    <2>13. QED
        BY ONLY <1>1, <1>8, <2>2, <2>3, <2>4, <2>6, <2>7, <2>9, <2>12
<1>10. CASE Reusable(p, m) = {}
    <2> DEFINE n == L + 1
               r == NewNode(m, p, s)
    <2>1. nodes' = Append(nodes, r) /\ leaf' = With(leaf, s, n)
        BY <1>10 DEF Extend, Grow, L
    <2>2. r \in SceneNode
        <3>1. p \in Nat
            BY <1>1
        <3>2. QED
            BY <3>1 DEF NewNode, SceneNode
    <2>3. r.parent = p /\ r.module = m /\ r.scenes = {s}
        BY DEF NewNode
    <2> HIDE DEF r
    <2>4. /\ nodes' \in Seq(SceneNode) /\ Len(nodes') = n /\ nodes'[n] = r
          /\ \A k \in 1..L : nodes'[k] = nodes[k]
        BY ONLY <1>1, <2>1, <2>2 DEF L
    <2>5. n \in Nat /\ n \in 1..n /\ 1..n = 1..L \cup {n} /\ 1..L \subseteq 1..n /\ n \notin 1..L
          /\ p \in 0..n - 1 /\ p \in 0..n
        BY ONLY <1>1
    <2> HIDE DEF n
    <2>6. Children(p, m) = {} /\ \A k \in 1..L : ~(nodes[k].parent = p /\ nodes[k].module = m)
        BY <1>1, <1>10 DEF Reusable, Children
    <2>7. Forest(nodes', n)
        BY <1>1, <2>3, <2>4, <2>5 DEF Forest
    <2>8. Siblings(nodes', n)
        BY <1>1, <2>3, <2>4, <2>5, <2>6 DEF Siblings
    <2>9. IsPath(nodes', n, Path') /\ \A k \in 0..L : Path'[k] = Path[k]
        <3>1. /\ Len(nodes') >= Len(nodes) /\ Forest(nodes', Len(nodes'))
              /\ \A k \in 1..Len(nodes) :
                    nodes'[k].parent = nodes[k].parent /\ nodes'[k].module = nodes[k].module
            BY ONLY <1>1, <2>4, <2>7 DEF L, n
        <3>2. /\ IsPath(nodes', Len(nodes'), Path')
              /\ \A k \in 0..Len(nodes) : Path'[k] = Path[k]
            BY <2>4, <3>1, PathKept
        <3>3. QED
            BY ONLY <3>2, <2>4 DEF L
    <2>10. Path'[n] = d
        <3>1. Path'[n] = Append(Path'[p], m)
            <4>1. Steps(nodes', n, Path')
                BY <2>5, <2>7, <2>9, PathFacts
            <4>2. Path'[n] = Append(Path'[nodes'[n].parent], nodes'[n].module)
                BY ONLY <2>5, <4>1 DEF Steps
            <4>3. QED
                BY ONLY <2>3, <2>4, <4>2
        <3>2. Path'[p] = c
            BY <1>1, <2>9
        <3>3. QED
            BY ONLY <3>1, <3>2
    <2>11. \A k \in 0..L : Path[k] # d
        BY ONLY <1>7, <2>6
    <2>12. ASSUME NEW x \in DOMAIN chain, x # s PROVE ~IsPrefix(d, chain[x])
        <3>1. leaf[x] \in 0..L /\ Path[leaf[x]] = chain[x]
            BY DEF SceneInv, SceneIsPath, L
        <3>2. IsPrefix(d, Path[leaf[x]]) => \E k \in 0..L : Path[k] = d
            <4>1. \A i \in 0..L : \A t \in Seq(NodeModule) :
                    IsPrefix(t, Path[i]) => \E k \in 0..L : Path[k] = t
                BY <1>1, <1>2, PrefixIsNode
            <4> HIDE DEF d
            <4>2. QED
                BY ONLY <1>3, <3>1, <4>1
        <3>3. QED
            BY ONLY <2>11, <3>1, <3>2
    <2>13. ASSUME NEW k \in 1..n, NEW x \in SceneId
           PROVE  x \in nodes'[k].scenes <=> x \in DOMAIN chain' /\ IsPrefix(Path'[k], chain'[x])
        <3>1. CASE k = n
            <4>1. x \in nodes'[k].scenes <=> x = s
                BY ONLY <2>3, <2>4, <3>1
            <4>2. IsPrefix(d, d)
                <5> HIDE DEF d
                <5>1. QED
                    BY <1>3, PrefixFacts
            <4>3. x \in DOMAIN chain' <=> x = s \/ x \in DOMAIN chain
                BY ONLY <1>4
            <4>4. QED
                BY ONLY <1>4, <2>10, <2>12, <3>1, <4>1, <4>2, <4>3
        <3>2. CASE k \in 1..L
            <4>1. Path'[k] = Path[k] /\ nodes'[k].scenes = nodes[k].scenes
                BY ONLY <1>1, <2>4, <2>9, <3>2
            <4>2. x \in nodes[k].scenes <=> x \in DOMAIN chain /\ IsPrefix(Path[k], chain[x])
                BY ONLY <1>1, <3>2, x \in SceneId DEF Knows
            <4>3. CASE x = s
                <5>1. Path[k] # d
                    BY ONLY <1>1, <2>11, <3>2
                <5>2. IsPrefix(Path[k], d) <=> s \in nodes[k].scenes \/ Path[k] = d
                    BY ONLY <1>6, <3>2
                <5>3. QED
                    BY ONLY <1>4, <4>1, <4>3, <5>1, <5>2
            <4>4. CASE x # s
                <5>1. x \in DOMAIN chain' <=> x \in DOMAIN chain
                    BY ONLY <1>4, <4>4
                <5>2. x \in DOMAIN chain => chain'[x] = chain[x]
                    BY ONLY <1>4, <4>4
                <5>3. QED
                    BY ONLY <4>1, <4>2, <5>1, <5>2
            <4>5. QED
                BY ONLY <4>3, <4>4
        <3>3. QED
            BY ONLY <2>5, <3>1, <3>2, k \in 1..n
    <2>14. Knows(nodes', n, Path', chain')
        BY ONLY <2>13 DEF Knows
    <2>15. QED
        <3>1. n \in 1..Len(nodes') /\ Len(nodes') >= L
            BY ONLY <1>1, <2>4, <2>5 DEF n
        <3>2. QED
            BY ONLY <1>8, <2>1, <2>4, <2>7, <2>8, <2>9, <2>10, <2>14, <3>1
<1>11. QED
    BY <1>9, <1>10

LEMMA SceneStartStep ==
    ASSUME SceneInv, NEW s \in SceneId, NEW m \in NodeModule, SceneStart(s, m)
    PROVE  SceneInv'
<1>1. s \notin DOMAIN leaf /\ Extend(s, m, 0) /\ chain' = With(chain, s, <<m>>)
    BY DEF SceneStart, Started
<1>2. s \notin DOMAIN chain /\ Len(nodes) \in Nat /\ IsPath(nodes, Len(nodes), Path)
    BY <1>1, PathDefined DEF SceneInv
<1>3. Path[0] = <<>> /\ 0 \in 0..Len(nodes)
    <2>1. Path[0] = <<>>
        BY <1>2, IsPathFacts
    <2>2. 0 \in 0..Len(nodes)
        BY ONLY <1>2
    <2>3. QED
        BY <2>1, <2>2
<1>4. Append(<<>>, m) = <<m>> /\ <<>> \in Seq(NodeModule)
    OBVIOUS
<1>5. chain' = With(chain, s, Append(<<>>, m))
    BY ONLY <1>1, <1>4
<1>6. QED
    BY <1>1, <1>2, <1>3, <1>4, <1>5, ExtendStep

LEMMA AddToSceneStep ==
    ASSUME SceneInv, NEW s \in SceneId, NEW m \in NodeModule, AddToScene(s, m)
    PROVE  SceneInv'
<1>1. /\ s \in DOMAIN leaf /\ Extend(s, m, leaf[s])
      /\ chain' = [chain EXCEPT ![s] = Append(@, m)]
    BY DEF AddToScene, Started
<1>2. /\ s \in DOMAIN chain /\ leaf[s] \in 0..Len(nodes)
      /\ chain[s] \in Seq(NodeModule) /\ Path[leaf[s]] = chain[s]
    BY <1>1 DEF SceneInv, SceneIsPath
<1> DEFINE d == Append(chain[s], m)
<1>3. chain' = [x \in DOMAIN chain |-> IF x = s THEN d ELSE chain[x]]
    BY ONLY <1>1
<1> HIDE DEF d
<1>4. DOMAIN chain \cup {s} = DOMAIN chain
    BY ONLY <1>2
<1>5. chain' = With(chain, s, d)
    BY ONLY <1>3, <1>4 DEF With
<1>6. QED
    BY ONLY SceneInv, s \in SceneId, m \in NodeModule, <1>1, <1>2, <1>5, ExtendStep DEF d

\* The execution of a node leaves the shape of the trees alone.
LEMMA ExecNodeStep ==
    ASSUME SceneInv, now \in Nat, ExecNode
    PROVE  SceneInv'
<1> DEFINE L == Len(nodes)
           at == Head(calls)
           n2 == [n \in DOMAIN nodes |->
                    IF n = at THEN [nodes[n] EXCEPT !.stamp = now] ELSE nodes[n]]
<1>1. L \in Nat /\ nodes \in Seq(SceneNode) /\ DOMAIN nodes = 1..L /\ now \in Nat
    BY DEF SceneInv
<1>2. nodes' = n2 /\ leaf' = leaf /\ chain' = chain
    <2>1. nodes' = [nodes EXCEPT ![at].stamp = now]
        BY DEF ExecNode, ExecuteNode
    <2> HIDE DEF at
    <2>2. QED
        BY <2>1 DEF ExecNode
<1> HIDE DEF at
<1>3. ASSUME NEW n \in 1..L
      PROVE  /\ n2[n] \in SceneNode /\ n2[n].parent = nodes[n].parent
             /\ n2[n].module = nodes[n].module /\ n2[n].scenes = nodes[n].scenes
    <2>1. nodes[n] \in SceneNode
        BY ONLY <1>1, <1>3
    <2> DEFINE r == [nodes[n] EXCEPT !.stamp = now]
    <2>2. /\ r \in SceneNode /\ r.parent = nodes[n].parent /\ r.module = nodes[n].module
          /\ r.scenes = nodes[n].scenes
        BY ONLY <1>1, <2>1 DEF SceneNode
    <2>3. n2[n] = r \/ n2[n] = nodes[n]
        BY ONLY <1>1, <1>3
    <2> HIDE DEF r, n2
    <2>4. QED
        BY ONLY <2>1, <2>2, <2>3
<1>4. n2 \in Seq(SceneNode) /\ Len(n2) = L /\ DOMAIN n2 = 1..L
    <2>1. n2 = [n \in 1..L |-> n2[n]]
        BY ONLY <1>1
    <2> HIDE DEF n2
    <2>2. \A n \in 1..L : n2[n] \in SceneNode
        BY ONLY <1>3
    <2>3. QED
        BY ONLY <1>1, <2>1, <2>2
<1> HIDE DEF n2
<1>5. \A n \in 1..L :
        /\ nodes'[n].parent = nodes[n].parent /\ nodes'[n].module = nodes[n].module
        /\ nodes'[n].scenes = nodes[n].scenes
    BY ONLY <1>2, <1>3
<1>6. nodes' \in Seq(SceneNode) /\ Len(nodes') = L
    BY ONLY <1>2, <1>4
<1>7. Forest(nodes, L) /\ Siblings(nodes, L) /\ Knows(nodes, L, Path, chain)
    BY DEF SceneInv
<1> HIDE DEF L
<1>8. Forest(nodes', L) /\ Siblings(nodes', L)
    BY ONLY <1>5, <1>7 DEF Forest, Siblings
<1>9. Forest(nodes', Len(nodes'))
    BY ONLY <1>6, <1>8
<1>10. Len(nodes') >= Len(nodes)
    BY ONLY <1>1, <1>6 DEF L
<1>11. \A n \in 1..Len(nodes) :
            nodes'[n].parent = nodes[n].parent /\ nodes'[n].module = nodes[n].module
    BY ONLY <1>5 DEF L
<1>12. \A n \in 0..Len(nodes) : Path'[n] = Path[n]
    BY <1>6, <1>9, <1>10, <1>11, PathKept
<1>13. \A n \in 0..L : Path'[n] = Path[n]
    BY ONLY <1>12 DEF L
<1>14. \A s \in DOMAIN leaf :
        leaf[s] \in 0..L /\ chain[s] \in Seq(NodeModule) /\ Path[leaf[s]] = chain[s]
    BY DEF SceneInv, SceneIsPath, L
<1>15. SceneIsPath'
    BY ONLY <1>2, <1>13, <1>14 DEF SceneIsPath
<1>16. Knows(nodes', L, Path', chain')
    BY ONLY <1>1, <1>2, <1>5, <1>7, <1>13 DEF Knows
<1>17. /\ Siblings(nodes', Len(nodes')) /\ Knows(nodes', Len(nodes'), Path', chain')
       /\ \A s \in DOMAIN leaf' : leaf'[s] \in 0..Len(nodes') /\ chain'[s] \in Seq(NodeModule)
    BY ONLY <1>2, <1>6, <1>8, <1>14, <1>16
<1>18. DOMAIN leaf' \subseteq SceneId /\ DOMAIN chain' = DOMAIN leaf'
    BY <1>2 DEF SceneInv
<1>19. QED
    BY ONLY <1>6, <1>9, <1>15, <1>17, <1>18 DEF SceneInv

\* The timestamp of an execution is a number.
NowInv == now \in Nat

LEMMA NowInvariance == ScenesSpec => []NowInv
<1>1. ScenesInit => NowInv
    BY DEF ScenesInit, NowInv
<1>2. NowInv /\ [ScenesNext]_sceneVars => NowInv'
    <2> SUFFICES ASSUME now \in Nat, [ScenesNext]_sceneVars PROVE now' \in Nat
        BY DEF NowInv
    <2>1. CASE UNCHANGED now
        BY <2>1
    <2>2. CASE \E stamp \in 0..MaxStamp : ExecAll(stamp)
        BY <2>2, SceneAssumption DEF ExecAll
    <2>3. QED
        BY <2>1, <2>2 DEF ScenesNext, SceneStart, AddToScene, ExecNode, sceneVars
<1>3. QED
    BY <1>1, <1>2, PTL DEF ScenesSpec

\* The invariant of the trees: a forest of nodes, no two children of a node
\* with one module, and in each node the scenes that begin with its path
\* (scenetrees.cc:60-128, node.cc:35-93).
THEOREM SceneInvariance == ScenesSpec => []SceneInv
<1>1. ScenesInit => SceneInv
    <2> SUFFICES ASSUME ScenesInit PROVE SceneInv
        OBVIOUS
    <2>1. /\ nodes = <<>> /\ Len(nodes) = 0 /\ nodes \in Seq(SceneNode)
          /\ DOMAIN leaf = {} /\ DOMAIN chain = {}
        BY DEF ScenesInit
    <2>2. QED
        BY <2>1 DEF SceneInv, Forest, Siblings, Knows, SceneIsPath
<1>2. SceneInv /\ now \in Nat /\ [ScenesNext]_sceneVars => SceneInv'
    <2> SUFFICES ASSUME SceneInv, now \in Nat, [ScenesNext]_sceneVars PROVE SceneInv'
        OBVIOUS
    <2>1. CASE UNCHANGED <<nodes, leaf, chain>>
        <3>1. Path' = Path
            BY <2>1 DEF Path
        <3>2. QED
            BY <2>1, <3>1 DEF SceneInv, SceneIsPath
    <2>2. ASSUME NEW s \in SceneId, NEW m \in NodeModule, SceneStart(s, m) PROVE SceneInv'
        BY <2>2, SceneStartStep
    <2>3. ASSUME NEW s \in SceneId, NEW m \in NodeModule, AddToScene(s, m) PROVE SceneInv'
        BY <2>3, AddToSceneStep
    <2>4. CASE ExecNode
        BY <2>4, ExecNodeStep
    <2>5. QED
        BY <2>1, <2>2, <2>3, <2>4 DEF ScenesNext, ExecAll, sceneVars
<1>3. QED
    BY <1>1, <1>2, NowInvariance, PTL DEF ScenesSpec, NowInv

\* Sharing nodes never changes a scene (scenetrees.cc:60-128).
THEOREM ScenesAreTheirPaths == ScenesSpec => []SceneIsPath
<1>1. SceneInv => SceneIsPath
    BY DEF SceneInv
<1>2. QED
    BY <1>1, SceneInvariance, PTL

\* Scenes share all that they can (scenetrees.cc:95-104).
THEOREM NodesAreSharedAlways == ScenesSpec => []NodesAreShared
<1>1. SceneInv => NodesAreShared
    <2> SUFFICES ASSUME SceneInv PROVE NodesAreShared
        OBVIOUS
    <2> DEFINE L == Len(nodes)
    <2>1. /\ L \in Nat /\ Forest(nodes, L) /\ Siblings(nodes, L) /\ DOMAIN nodes = 1..L
          /\ Knows(nodes, L, Path, chain) /\ DOMAIN chain \subseteq SceneId
          /\ \A n \in 1..L : nodes[n].scenes \subseteq SceneId
        <3>1. nodes \in Seq(SceneNode)
            BY DEF SceneInv
        <3>2. L \in Nat /\ DOMAIN nodes = 1..L /\ \A n \in 1..L : nodes[n] \in SceneNode
            BY ONLY <3>1
        <3>3. \A n \in 1..L : nodes[n].scenes \subseteq SceneId
            BY ONLY <3>2 DEF SceneNode
        <3>4. QED
            BY <3>2, <3>3 DEF SceneInv
    <2>2. IsPath(nodes, L, Path)
        BY PathDefined DEF SceneInv
    <2> HIDE DEF L
    <2>3. \A i, j \in 0..L : Path[i] = Path[j] => i = j
        BY <2>1, <2>2, PathInjective
    <2>4. \A i, j \in DOMAIN nodes : Path[i] = Path[j] => i = j
        BY ONLY <2>1, <2>3
    <2>5. ASSUME NEW n \in DOMAIN nodes
          PROVE  nodes[n].scenes = {s \in DOMAIN chain : IsPrefix(Path[n], chain[s])}
        BY ONLY <2>1, n \in DOMAIN nodes DEF Knows
    <2>6. QED
        BY ONLY <2>4, <2>5 DEF NodesAreShared
<1>2. QED
    BY <1>1, SceneInvariance, PTL
=============================================================================
