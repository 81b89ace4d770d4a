-------------------------- MODULE ModuleParameters --------------------------
(***************************************************************************)
(* The parameters of one module: lib/interface/module.cc and parameter.cc, *)
(* and the initialization of its wrapper in lib/core/module_wrapper.hh.    *)
(* The module registers parameters of its own in its constructor and in    *)
(* init(); in between the wrapper registers those that all modules have.   *)
(*                                                                         *)
(* A string is known by a number, so that a value is always an integer.    *)
(***************************************************************************)
EXTENDS Integers, Sequences, FiniteSets, SequencesExt

CONSTANTS
    OwnName,        \* the names the module uses, possibly those of the wrapper
    LongName,       \* the ones of TV_STRING_SIZE characters or more
    Text,           \* the default values of its string parameters
    LongText,       \* and those of TV_STRING_SIZE characters or more
    Limit,          \* the <<min, max, init>> it registers
    SetValue,       \* the values parameters are set to
    ProducesResult  \* produces_result()

ASSUME ParameterAssumption ==
    /\ Limit \subseteq Int \X Int \X Int /\ SetValue \subseteq Int
    /\ ProducesResult \in BOOLEAN /\ LongName \subseteq OwnName
    /\ Text \subseteq Int

VARIABLES
    parameters,   \* parameter_map_
    names,        \* parameter_names_
    phase,        \* where the construction of the module is
    moduleReady,  \* initialized_ of the module
    wrapperReady, \* initialized_ of the wrapper
    initError     \* init_error_

parameterVars == <<parameters, names, phase, moduleReady, wrapperReady, initError>>

Numerical(min, max, init) ==
    [type |-> "Numerical", min |-> min, max |-> max, value |-> init, verified |-> TRUE]

\* A string parameter; verified: it was registered with a predicate.
StringOf(init, verified) ==
    [type |-> "String", min |-> 0, max |-> 0, value |-> init, verified |-> verified]

-----------------------------------------------------------------------------
(* Module *)

InLimits(p) == p.type = "String" \/ (p.min <= p.value /\ p.value <= p.max)

\* register_parameter refuses a numerical parameter with invalid values and a
\* string parameter whose default is too long, which set does not.
Valid(p) == InLimits(p) /\ (p.type = "String" => p.value \notin LongText)

Registered(name) == name \in DOMAIN parameters

\* Mutant of MayRegister: what is registered already is replaced.
MayRegisterAgain(name, p) == ~moduleReady /\ Valid(p) /\ name \notin LongName

\* register_parameter_typed
MayRegister(name, p) ==
    ~moduleReady /\ Valid(p) /\ ~Registered(name) /\ name \notin LongName

Insert(name, p) ==
    /\ parameters' = [n \in DOMAIN parameters \cup {name} |->
                        IF n = name THEN p ELSE parameters[n]]
    /\ names' = Append(names, name)

\* Every refusal is an error of the initialization, but the one of a numerical
\* or string parameter with valid values after it.
Register(name, p) ==
    /\ IF MayRegister(name, p)
         THEN Insert(name, p) /\ UNCHANGED initError
         ELSE /\ initError' = (initError \/ ~(moduleReady /\ Valid(p)))
              /\ UNCHANGED <<parameters, names>>
    /\ UNCHANGED <<phase, moduleReady, wrapperReady>>

OwnParameter == {Numerical(l[1], l[2], l[3]) : l \in Limit}
                \cup {StringOf(text, verified) : text \in Text, verified \in BOOLEAN}

\* The constructor and init() of the module, and any later attempt.
RegisterOwn ==
    /\ phase \in {"constructor", "init"} \/ wrapperReady
    /\ \E name \in OwnName, p \in OwnParameter : Register(name, p)

Accepts(p, type, value) ==
    /\ p.type = type
    /\ IF type = "Numerical" THEN value \in p.min..p.max ELSE p.verified

\* set, for a module that could be loaded
SetParameter(name, type, value) ==
    /\ phase = "done" /\ wrapperReady
    /\ Registered(name) /\ Accepts(parameters[name], type, value)
    /\ parameters' = [parameters EXCEPT ![name].value = value]
    /\ UNCHANGED <<names, phase, moduleReady, wrapperReady, initError>>

-----------------------------------------------------------------------------
(* ModuleWrapper::initialize *)

WrapperNames ==
    IF ProducesResult THEN <<"result_timeout", "callbacks_enabled", "period">>
                      ELSE <<"period">>

WrapperParameter(name) ==
    CASE name = "result_timeout"    -> Numerical(0, 40, 20)
      [] name = "callbacks_enabled" -> Numerical(0, 1, 1)
      [] name = "period"            -> Numerical(0, 500, 1)

\* The names up to the first one the module has registered itself, which ends
\* the initialization as an error.  After the last one Module::initialize
\* fails if there was an error before, and calls init() else.
WrapperInitialize ==
    LET count == SelectInSeq(WrapperNames, Registered)
        complete == count = 0
        new == IF complete THEN WrapperNames ELSE SubSeq(WrapperNames, 1, count - 1)
    IN  /\ phase = "constructor"
        /\ parameters' = [n \in DOMAIN parameters \cup ToSet(new) |->
                IF Registered(n) THEN parameters[n] ELSE WrapperParameter(n)]
        /\ names' = names \o new
        /\ initError' = (initError \/ ~complete)
        /\ wrapperReady' = (complete /\ ~initError)
        /\ phase' = IF wrapperReady' THEN "init" ELSE "done"
        /\ UNCHANGED moduleReady

\* init() returns, with or without errors.
InitReturns ==
    /\ phase = "init"
    /\ phase' = "done" /\ moduleReady' = TRUE
    /\ UNCHANGED <<parameters, names, wrapperReady, initError>>

ParametersInit ==
    /\ parameters = [n \in {} |-> StringOf(0, FALSE)] /\ names = <<>>
    /\ phase = "constructor"
    /\ moduleReady = FALSE /\ wrapperReady = FALSE /\ initError = FALSE

ParametersNext ==
    \/ RegisterOwn
    \/ WrapperInitialize
    \/ InitReturns
    \/ \E name \in DOMAIN parameters, type \in {"Numerical", "String"},
          value \in SetValue : SetParameter(name, type, value)

ParametersSpec == ParametersInit /\ [][ParametersNext]_parameterVars

-----------------------------------------------------------------------------
(* Properties *)

\* A module that could be initialized has the parameters of its wrapper with
\* the wrapper's limits, whatever it registered itself and in which order
\* (module_wrapper.hh:131-140).
WrapperParametersStand ==
    wrapperReady =>
        \A name \in ToSet(WrapperNames) :
            /\ Registered(name)
            /\ [parameters[name] EXCEPT !.value = 0]
                 = [WrapperParameter(name) EXCEPT !.value = 0]
=============================================================================
