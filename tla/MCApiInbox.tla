----------------------------- MODULE MCApiInbox -----------------------------
(***************************************************************************)
(* Instance of ApiInbox for TLC: a program that calls one API function, in *)
(* all its operation modes, for each of the functions, and programs that   *)
(* combine several.                                                        *)
(***************************************************************************)
EXTENDS ApiInbox

\* Every API function with one command, of the library and of its Matlab wrappers.
ApiFunctionSet == {
    simxGetJointPosition("j"), simxSetJointPosition("j"), simxGetJointMatrix("j"),
    simxSetSphericalJointMatrix("j"), simxSetJointTargetVelocity("j"),
    simxSetJointTargetPosition("j"), simxReadProximitySensor("s"), simxStartSimulation,
    simxPauseSimulation, simxStopSimulation, simxGetObjectHandle("o"), simxGetUIHandle("u"),
    simxGetVisionSensorImage("s", "bw"), simxGetVisionSensorImage("s", "rgb"),
    simxSetVisionSensorImage("s", "bw"), simxSetVisionSensorImage("s", "rgb"),
    simxGetVisionSensorDepthBuffer("s"), simxGetJointForce("j"), simxJointGetForce("j"),
    simxSetJointForce("j"), simxReadForceSensor("f"), simxBreakForceSensor("f"),
    simxReadVisionSensor("s"), simxGetObjectParent("c"), simxGetObjectChild("p", "c"),
    simxTransferFile("path", "file"), simxEraseFile("file"), simxGetUISlider("u", "u"),
    simxSetUISlider("u", "u"), simxGetUIEventButton("u"), simxGetUIButtonProperty("u", "u"),
    simxSetUIButtonProperty("u", "u"), simxAddStatusbarMessage("m"), simxCreateDummy,
    simxCallScriptFunction("o", "s", "f"), simxAuxiliaryConsoleOpen("t"),
    simxAuxiliaryConsoleClose("c"), simxAuxiliaryConsolePrint("c"),
    simxAuxiliaryConsoleShow("c"), simxGetObjectOrientation("o", "r"),
    simxGetObjectPosition("o", "r"), simxSetObjectOrientation("o"), simxSetObjectPosition("o"),
    simxSetObjectParent("o"), simxSetUIButtonLabel("u", "u"), simxGetLastErrors,
    simxGetArrayParameter("p"), simxSetArrayParameter("p"), simxGetBooleanParameter("p"),
    simxSetBooleanParameter("p"), simxGetIntegerParameter("p"), simxSetIntegerParameter("p"),
    simxGetFloatingParameter("p"), simxSetFloatingParameter("p"), simxGetStringParameter("p"),
    simxGetCollisionHandle("c"), simxGetDistanceHandle("d"), simxGetCollectionHandle("c"),
    simxReadCollision("c"), simxReadDistance("d"), simxRemoveObject("o"), simxRemoveModel("o"),
    simxRemoveUI("u"), simxCloseScene, simxGetObjects("o"), simxDisplayDialog("t"),
    simxEndDialog("d"), simxGetDialogInput("d"), simxGetDialogResult("d"), simxCopyPasteObjects,
    simxGetObjectSelection, simxSetObjectSelection, simxClearFloatSignal("s"),
    simxClearIntegerSignal("s"), simxClearStringSignal("s"), simxGetFloatSignal("s"),
    simxGetIntegerSignal("s"), simxGetStringSignal("s"), simxGetAndClearStringSignal("s"),
    simxReadStringStream("s"), simxSetFloatSignal("s"), simxSetIntegerSignal("s"),
    simxSetStringSignal("s"), simxAppendStringSignal("s"), simxWriteStringStream("s"),
    simxGetObjectFloatParameter("o", "p"), simxSetObjectFloatParameter("o", "p"),
    simxGetObjectIntParameter("o", "p"), simxSetObjectIntParameter("o", "p"),
    simxGetModelProperty("o"), simxSetModelProperty("o"), simxGetObjectGroupData("o", "d"),
    simxGetObjectVelocity("o")}
MatlabFunctions == {
    mtlb_simxSetJointPosition("j"), mtlb_simxSetJointTargetVelocity("j"),
    mtlb_simxSetJointTargetPosition("j"), mtlb_simxSetJointForce("j"),
    mtlb_simxSetFloatSignal("s"), mtlb_simxSetObjectFloatParameter("o", "p"),
    mtlb_simxSetFloatingParameter("p"), mtlb_simxCreateDummy, mtlb_simxReadProximitySensor("s"),
    mtlb_simxAuxiliaryConsoleOpen("t"), mtlb_simxDisplayDialog("t"),
    mtlb_simxGetObjectGroupData("o", "d"),
    mtlb_simxCallScriptFunction_b(mtlb_simxCallScriptFunction_a("o", "s", "f"))}

MCTmpFiles == {"tmp"}

\* Those with commands that are appended for good are not streamed here.
Calls(F) ==
    {Call(f, mode) : f \in F, mode \in Mode \ {"streaming"}}
        \cup {Call(f, "streaming") : f \in {g \in F : g.queue # "append"}}

Loading(Load_(_, _, _, _)) ==
    {Load_("path", "client", "tmp", mode) : mode \in {"oneshot", "blocking", "remove"}}
        \cup {Load_("path", "server", "tmp", mode) : mode \in Mode}

\* One function; the three that load files; a stream, and two; two handles; queries.
MCPrograms ==
    {Calls({f}) : f \in ApiFunctionSet \cup MatlabFunctions}
        \cup {Loading(simxLoadModel), Loading(simxLoadUI), Loading(simxLoadScene),
              {simxSynchronous(TRUE), simxSynchronous(FALSE), simxSynchronousTrigger,
               simxGetPingTime},
              Calls({simxReadStringStream("s")}) \cup {Call(simxGetJointPosition("j"), "blocking")},
              {Call(simxReadStringStream(signal), mode) :
                   signal \in {"s", "t"}, mode \in {"streaming", "buffer", "discontinue"}},
              {Call(f, mode) : f \in {simxGetJointPosition("j"), simxGetJointPosition("k")},
                               mode \in {"streaming", "blocking", "discontinue"}},
              {simxQuery("s", "r"), mtlb_simxQuery("s", "r")}
                  \cup Calls({simxGetAndClearStringSignal("r")})}

=============================================================================
