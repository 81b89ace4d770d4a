---------------------------- MODULE MCComponents ----------------------------
(***************************************************************************)
(* An instance for TLC of the components that share no state with one      *)
(* another: a behaviour is one of the component its initial state selects, *)
(* while the variables of the others keep their initial values.            *)
(***************************************************************************)
EXTENDS MCCameraControl, Convert, MCModulePass, ModuleParameters, SceneTrees,
        MCModuleLoader, ResultCallbacks

\* One pair of pixels, one block of four, and more than one in each direction;
\* with a step of 4, two rows with and without columns that remain.
MCSizes   == {2, 4, 6, 8}
MCFactors == {1, 2}

\* A name of its own, one of the wrapper's and a long one; a string and a long
\* one; limits with the value below, between and above them; two values outside
\* of all limits.
MCOwnName  == {"own", "period", "long"}
MCLongName == {"long"}
MCText     == {0, 501}
MCLongText == {501}
MCLimit    == {<<0, 1, 0>>, <<1, 0, 0>>, <<0, 1, 2>>}
MCSetValue == {-1, 0, 1, 501}

MCSceneId    == 1..3
MCNodeModule == 1..2

\* Modules that are loaded one after the other, and two callbacks.
MCLoadable == {1, 2}
MCCallback == {"first", "second"}

VARIABLE part   \* the component that takes the steps

others(p) ==
    /\ UNCHANGED part
    /\ p # "camera" => UNCHANGED cameraVars
    /\ p # "convert" => UNCHANGED convertVars
    /\ p # "pass" => UNCHANGED passVars
    /\ p # "parameters" => UNCHANGED parameterVars
    /\ p # "scenes" => UNCHANGED sceneVars
    /\ p # "loader" => UNCHANGED loaderVars
    /\ p # "callbacks" => UNCHANGED callbackVars

MCVars == <<part, cameraVars, convertVars, passVars, parameterVars, sceneVars,
            loaderVars, callbackVars>>

MCInit ==
    /\ part \in {"camera", "convert", "pass", "parameters", "scenes", "loader",
                "callbacks"}
    /\ CameraInit /\ ConvertInit /\ PassInit /\ ParametersInit /\ ScenesInit
    /\ LoaderInit /\ CallbacksInit
    /\ part = "loader" \/ \A p \in Pair : ~Exists(p)

MCNext ==
    \/ part = "camera"     /\ CameraNext     /\ others("camera")
    \/ part = "convert"    /\ ConvertNext    /\ others("convert")
    \/ part = "pass"       /\ PassNext       /\ others("pass")
    \/ part = "parameters" /\ ParametersNext /\ others("parameters")
    \/ part = "scenes"     /\ ScenesNext     /\ others("scenes")
    \/ part = "loader"     /\ LoaderNext     /\ others("loader")
    \/ part = "callbacks"  /\ CallbacksNext  /\ others("callbacks")

MCSpec == MCInit /\ [][MCNext]_MCVars
=============================================================================
