---------------------------- MODULE ApiFunctions ----------------------------
(***************************************************************************)
(* The functions of the remote API (remoteApi/extApi.c, simxGetJointPosition *)
(* to mtlb_simxCallScriptFunction_b) as data: which command each of them   *)
(* queues, by which argument the command and its reply are looked up, what *)
(* becomes of a duplicate that still waits in the outbox, and whether the  *)
(* reply is taken out of the inbox once it was read.  What is read out of  *)
(* the reply, and how the parameters are packed, is left out.              *)
(*                                                                         *)
(* A call is a sequence of steps.  Most functions make one: an _exec_* in  *)
(* the operation mode of the caller or, for simx_opmode_remove, a          *)
(* _removeCommandReply_*.  ApiInbox executes the steps.                    *)
(***************************************************************************)
EXTENDS Sequences

(* v_repConst.h: the number of a command says what it is identified by *)

\* commands only identified by their code
CmdNull == {
    "synchronous_enable", "synchronous_disable", "synchronous_next", "get_last_errors",
    "close_scene", "get_object_selection", "create_dummy", "kill_connection"}

\* ... also by 4 bytes
Cmd4Bytes == {
    "get_joint_position", "set_joint_position", "get_vision_sensor_image_bw",
    "get_vision_sensor_image_rgb", "set_vision_sensor_image_bw",
    "set_vision_sensor_image_rgb", "start_pause_stop_simulation",
    "set_joint_target_velocity", "read_proximity_sensor", "get_joint_matrix",
    "set_spherical_joint_matrix", "set_joint_target_position", "get_joint_force",
    "set_joint_force", "read_force_sensor", "break_force_sensor", "read_vision_sensor",
    "get_object_parent", "aux_console_close", "aux_console_print", "aux_console_show",
    "get_vision_sensor_depth_buffer", "get_object_orientation", "get_object_position",
    "set_object_orientation", "set_object_position", "set_object_parent",
    "get_array_parameter", "set_array_parameter", "get_boolean_parameter",
    "set_boolean_parameter", "get_integer_parameter", "set_integer_parameter",
    "get_floating_parameter", "set_floating_parameter", "get_string_parameter",
    "read_collision", "read_distance", "remove_object", "remove_ui", "get_objects",
    "end_dialog", "get_dialog_input", "get_dialog_result", "copy_paste_objects",
    "set_object_selection", "get_model_property", "set_model_property",
    "get_object_velocity", "remove_model", "set_object_quaternion"}

\* ... by 8 bytes
Cmd8Bytes == {
    "get_ui_slider", "set_ui_slider", "get_ui_event_button", "get_ui_button_property",
    "set_ui_button_property", "set_ui_button_label", "get_object_float_parameter",
    "get_object_int_parameter", "set_object_float_parameter", "set_object_int_parameter",
    "get_object_child", "get_object_group_data", "get_object_orientation2",
    "get_object_position2", "get_object_quaternion"}

\* ... by one string
Cmd1String == {
    "get_object_handle", "load_scene", "load_model", "transfer_file", "load_ui",
    "erase_file", "get_ui_handle", "add_statusbar_message", "aux_console_open",
    "get_collision_handle", "get_distance_handle", "display_dialog", "clear_float_signal",
    "clear_integer_signal", "clear_string_signal", "get_float_signal", "get_integer_signal",
    "get_string_signal", "set_float_signal", "set_integer_signal", "set_string_signal",
    "append_string_signal", "get_and_clear_string_signal", "read_string_stream",
    "get_collection_handle"}

\* ... by 4 bytes and two strings
Cmd4Bytes2Strings == {
    "call_script_function"}

\* How many values the data of a reply starts with (_getCmdDataSize).
DataSize(cmd) ==
    IF cmd \in CmdNull THEN 0
    ELSE IF cmd \in Cmd8Bytes THEN 2
    ELSE IF cmd \in Cmd4Bytes2Strings THEN 3 ELSE 1

Mode == {"oneshot", "blocking", "streaming", "discontinue", "buffer", "remove"}

-----------------------------------------------------------------------------
(* What an _exec_* function does with its command.  `queue` says what becomes of a *)
(* duplicate in the outbox: it is kept, updated where it is, removed and appended  *)
(* again, or left there with the new command after it (options&1).                 *)

Function(cmd, key, queue) ==
    [cmd |-> cmd, key |-> key, queue |-> queue, removes |-> <<cmd, key>>, taken |-> "no"]

Keep(cmd, key) == Function(cmd, key, "keep")
Update(cmd, key) == Function(cmd, key, "update")
Move(cmd, key) == Function(cmd, key, "move")

\* A fixed number of parameters is overwritten where the duplicate is, a buffer is not:
\* it may have another size.
exec_null(cmd, key) == Keep(cmd, key)
exec_null_buffer(cmd, key) == Move(cmd, key)
exec_int(cmd, key) == Update(cmd, key)
exec_intint(cmd, key) == Update(cmd, key)
exec_string(cmd, key) == Update(cmd, key)
exec_int_int(cmd, key) == Update(cmd, key)
exec_intint_int(cmd, key) == Update(cmd, key)
exec_intint_buffer(cmd, key) == Move(cmd, key)
exec_int_float(cmd, key) == Update(cmd, key)
exec_int_buffer(cmd, key) == Move(cmd, key)
exec_string_buffer(cmd, key) == Move(cmd, key)
exec_intstringstring_buffer(cmd, key) == Move(cmd, key)

\* options&1
Again(f) == [f EXCEPT !.queue = "append"]

\* The entry that simx_opmode_remove looks for, when it is not the function's own.
Removes(f, cmd, key) == [f EXCEPT !.removes = <<cmd, key>>]

\* The reply is removed once it is read: in simx_opmode_buffer when it reports an event,
\* in simx_opmode_buffer, or in every mode and under one lock with the lookup.
Taken(f, when) == [f EXCEPT !.taken = when]

-----------------------------------------------------------------------------
(* A step of a call: unlessFailed steps are left out once a `decides` step failed, a *)
(* `polls` step is repeated until it finds a reply or the time is over.              *)

Step(f, mode) == [f |-> f, mode |-> mode, decides |-> FALSE, unlessFailed |-> FALSE,
                  polls |-> FALSE]
Decides(step) == [step EXCEPT !.decides = TRUE]
UnlessFailed(step) == [step EXCEPT !.unlessFailed = TRUE]

Call(f, mode) == <<Step(f, mode)>>

-----------------------------------------------------------------------------
(* The helper functions that send a command *)

simxSynchronousTrigger == Call(exec_null("synchronous_next", <<>>), "blocking")
simxSynchronous(enable) ==
    Call(exec_null(IF enable THEN "synchronous_enable" ELSE "synchronous_disable", <<>>), "blocking")

-----------------------------------------------------------------------------
(* The remote API functions *)

simxGetJointPosition(jointHandle) == exec_int("get_joint_position", <<jointHandle>>)
simxSetJointPosition(jointHandle) == exec_int_float("set_joint_position", <<jointHandle>>)
simxGetJointMatrix(jointHandle) == exec_int("get_joint_matrix", <<jointHandle>>)
simxSetSphericalJointMatrix(jointHandle) ==
    exec_int_buffer("set_spherical_joint_matrix", <<jointHandle>>)
simxSetJointTargetVelocity(jointHandle) ==
    exec_int_float("set_joint_target_velocity", <<jointHandle>>)
simxSetJointTargetPosition(jointHandle) ==
    exec_int_float("set_joint_target_position", <<jointHandle>>)
simxReadProximitySensor(sensorHandle) == exec_int("read_proximity_sensor", <<sensorHandle>>)
simxStartSimulation == exec_int("start_pause_stop_simulation", <<"0">>)
simxPauseSimulation == exec_int("start_pause_stop_simulation", <<"1">>)
simxStopSimulation == exec_int("start_pause_stop_simulation", <<"2">>)
simxGetObjectHandle(objectName) == exec_string("get_object_handle", <<objectName>>)
simxGetUIHandle(uiName) == exec_string("get_ui_handle", <<uiName>>)
simxGetVisionSensorImage(sensorHandle, options) ==
    exec_int(IF options = "bw" THEN "get_vision_sensor_image_bw"
             ELSE "get_vision_sensor_image_rgb", <<sensorHandle>>)
simxSetVisionSensorImage(sensorHandle, options) ==
    exec_int_buffer(IF options = "bw" THEN "set_vision_sensor_image_bw"
                    ELSE "set_vision_sensor_image_rgb", <<sensorHandle>>)
simxGetVisionSensorDepthBuffer(sensorHandle) ==
    exec_int("get_vision_sensor_depth_buffer", <<sensorHandle>>)
simxGetJointForce(jointHandle) == exec_int("get_joint_force", <<jointHandle>>)
simxJointGetForce(jointHandle) == simxGetJointForce(jointHandle)
simxSetJointForce(jointHandle) == exec_int_float("set_joint_force", <<jointHandle>>)
simxReadForceSensor(forceSensorHandle) == exec_int("read_force_sensor", <<forceSensorHandle>>)
simxBreakForceSensor(forceSensorHandle) ==
    exec_int("break_force_sensor", <<forceSensorHandle>>)
simxReadVisionSensor(sensorHandle) == exec_int("read_vision_sensor", <<sensorHandle>>)
simxGetObjectParent(childObjectHandle) == exec_int("get_object_parent", <<childObjectHandle>>)
simxGetObjectChild(parentObjectHandle, childIndex) ==
    exec_intint("get_object_child", <<parentObjectHandle, childIndex>>)
simxTransferFile(filePathAndName, fileName_serverSide) ==
    Removes(exec_string_buffer("transfer_file", <<fileName_serverSide>>),
            "transfer_file", <<filePathAndName>>)
simxEraseFile(fileName_serverSide) == exec_string("erase_file", <<fileName_serverSide>>)

\* Bug: the file is loaded whatever became of its transfer.
LoadFromClient_Always(load, path, tmpFileName, mode) ==
    IF mode = "remove"
    THEN <<Step(Removes(exec_string(load, <<tmpFileName>>), load, <<path>>), "remove")>>
    ELSE <<Step(simxTransferFile(path, tmpFileName), "blocking"),
           Step(exec_string(load, <<tmpFileName>>), mode),
           Step(simxEraseFile(tmpFileName), "oneshot"),
           Step(simxTransferFile(path, tmpFileName), "remove")>>

\* simxLoadModel, simxLoadUI and simxLoadScene with options&1: the file is transferred
\* under a name of its own, loaded and erased again; what is removed is named by the path.
LoadFromClient(load, path, tmpFileName, mode) ==
    IF mode = "remove"
    THEN <<Step(Removes(exec_string(load, <<tmpFileName>>), load, <<path>>), "remove")>>
    ELSE <<Decides(Step(simxTransferFile(path, tmpFileName), "blocking")),
           UnlessFailed(Step(exec_string(load, <<tmpFileName>>), mode)),
           UnlessFailed(Step(simxEraseFile(tmpFileName), "oneshot")),
           Step(simxTransferFile(path, tmpFileName), "remove")>>

Load(load, path, options, tmpFileName, mode) ==
    IF options = "client" THEN LoadFromClient(load, path, tmpFileName, mode)
    ELSE Call(exec_string(load, <<path>>), mode)

simxLoadModel(path, options, tmpFileName, mode) ==
    Load("load_model", path, options, tmpFileName, mode)
simxLoadUI(path, options, tmpFileName, mode) ==
    Load("load_ui", path, options, tmpFileName, mode)
simxLoadScene(path, options, tmpFileName, mode) ==
    Load("load_scene", path, options, tmpFileName, mode)
simxGetUISlider(uiHandle, uiButtonID) == exec_intint("get_ui_slider", <<uiHandle, uiButtonID>>)
simxSetUISlider(uiHandle, uiButtonID) ==
    exec_intint_int("set_ui_slider", <<uiHandle, uiButtonID>>)
simxGetUIEventButton(uiHandle) ==
    Taken(exec_int("get_ui_event_button", <<uiHandle>>), "event")
simxGetUIButtonProperty(uiHandle, uiButtonID) ==
    exec_intint("get_ui_button_property", <<uiHandle, uiButtonID>>)
simxSetUIButtonProperty(uiHandle, uiButtonID) ==
    exec_intint_int("set_ui_button_property", <<uiHandle, uiButtonID>>)
simxAddStatusbarMessage(message) == Again(exec_string("add_statusbar_message", <<message>>))
simxCreateDummy == Again(exec_null_buffer("create_dummy", <<>>))
simxCallScriptFunction(options, scriptDescription, functionName) ==
    LET key == <<options, scriptDescription, functionName>>
    IN Removes(Again(exec_intstringstring_buffer("call_script_function", key)),
               "aux_console_open", key)
simxAuxiliaryConsoleOpen(title) == exec_string_buffer("aux_console_open", <<title>>)
simxAuxiliaryConsoleClose(consoleHandle) == exec_int("aux_console_close", <<consoleHandle>>)
simxAuxiliaryConsolePrint(consoleHandle) ==
    Again(exec_int_buffer("aux_console_print", <<consoleHandle>>))
simxAuxiliaryConsoleShow(consoleHandle) == exec_int_int("aux_console_show", <<consoleHandle>>)
simxGetObjectOrientation(objectHandle, relativeToObjectHandle) ==
    exec_intint("get_object_orientation2", <<objectHandle, relativeToObjectHandle>>)
simxGetObjectPosition(objectHandle, relativeToObjectHandle) ==
    exec_intint("get_object_position2", <<objectHandle, relativeToObjectHandle>>)
simxSetObjectOrientation(objectHandle) ==
    exec_int_buffer("set_object_orientation", <<objectHandle>>)
simxSetObjectPosition(objectHandle) == exec_int_buffer("set_object_position", <<objectHandle>>)
simxSetObjectParent(objectHandle) == exec_int_buffer("set_object_parent", <<objectHandle>>)
simxSetUIButtonLabel(uiHandle, uiButtonID) ==
    exec_intint_buffer("set_ui_button_label", <<uiHandle, uiButtonID>>)
simxGetLastErrors == exec_null("get_last_errors", <<>>)
simxGetArrayParameter(paramIdentifier) == exec_int("get_array_parameter", <<paramIdentifier>>)
simxSetArrayParameter(paramIdentifier) ==
    exec_int_buffer("set_array_parameter", <<paramIdentifier>>)
simxGetBooleanParameter(paramIdentifier) ==
    exec_int("get_boolean_parameter", <<paramIdentifier>>)
simxSetBooleanParameter(paramIdentifier) ==
    exec_int_int("set_boolean_parameter", <<paramIdentifier>>)
simxGetIntegerParameter(paramIdentifier) ==
    exec_int("get_integer_parameter", <<paramIdentifier>>)
simxSetIntegerParameter(paramIdentifier) ==
    exec_int_int("set_integer_parameter", <<paramIdentifier>>)
simxGetFloatingParameter(paramIdentifier) ==
    exec_int("get_floating_parameter", <<paramIdentifier>>)
simxSetFloatingParameter(paramIdentifier) ==
    exec_int_float("set_floating_parameter", <<paramIdentifier>>)
simxGetStringParameter(paramIdentifier) ==
    exec_int("get_string_parameter", <<paramIdentifier>>)
simxGetCollisionHandle(collisionObjectName) ==
    exec_string("get_collision_handle", <<collisionObjectName>>)
simxGetDistanceHandle(distanceObjectName) ==
    exec_string("get_distance_handle", <<distanceObjectName>>)
simxGetCollectionHandle(collectionName) ==
    exec_string("get_collection_handle", <<collectionName>>)
simxReadCollision(collisionObjectHandle) ==
    exec_int("read_collision", <<collisionObjectHandle>>)
simxReadDistance(distanceObjectHandle) == exec_int("read_distance", <<distanceObjectHandle>>)
simxRemoveObject(objectHandle) == exec_int("remove_object", <<objectHandle>>)
simxRemoveModel(objectHandle) == exec_int("remove_model", <<objectHandle>>)
simxRemoveUI(uiHandle) == exec_int("remove_ui", <<uiHandle>>)
simxCloseScene == exec_null("close_scene", <<>>)
simxGetObjects(objectType) == exec_int("get_objects", <<objectType>>)
simxDisplayDialog(titleText) == exec_string_buffer("display_dialog", <<titleText>>)
simxEndDialog(dialogHandle) == exec_int("end_dialog", <<dialogHandle>>)
simxGetDialogInput(dialogHandle) == exec_int("get_dialog_input", <<dialogHandle>>)
simxGetDialogResult(dialogHandle) == exec_int("get_dialog_result", <<dialogHandle>>)
simxCopyPasteObjects == Again(exec_int_buffer("copy_paste_objects", <<"0">>))
simxGetObjectSelection == exec_null("get_object_selection", <<>>)
simxSetObjectSelection == exec_int_buffer("set_object_selection", <<"0">>)
simxClearFloatSignal(signalName) == exec_string("clear_float_signal", <<signalName>>)
simxClearIntegerSignal(signalName) == exec_string("clear_integer_signal", <<signalName>>)
simxClearStringSignal(signalName) == exec_string("clear_string_signal", <<signalName>>)
simxGetFloatSignal(signalName) == exec_string("get_float_signal", <<signalName>>)
simxGetIntegerSignal(signalName) == exec_string("get_integer_signal", <<signalName>>)
simxGetStringSignal(signalName) == exec_string("get_string_signal", <<signalName>>)
simxGetAndClearStringSignal(signalName) ==
    Taken(exec_string("get_and_clear_string_signal", <<signalName>>), "buffer")
simxReadStringStream(signalName) ==
    Taken(exec_string("read_string_stream", <<signalName>>), "locked")
simxSetFloatSignal(signalName) == exec_string_buffer("set_float_signal", <<signalName>>)
simxSetIntegerSignal(signalName) == exec_string_buffer("set_integer_signal", <<signalName>>)
simxSetStringSignal(signalName) == exec_string_buffer("set_string_signal", <<signalName>>)
simxAppendStringSignal(signalName) ==
    Again(exec_string_buffer("append_string_signal", <<signalName>>))
simxWriteStringStream(signalName) == simxAppendStringSignal(signalName)
simxGetObjectFloatParameter(objectHandle, parameterID) ==
    exec_intint("get_object_float_parameter", <<objectHandle, parameterID>>)
simxSetObjectFloatParameter(objectHandle, parameterID) ==
    exec_intint_buffer("set_object_float_parameter", <<objectHandle, parameterID>>)
simxGetObjectIntParameter(objectHandle, parameterID) ==
    exec_intint("get_object_int_parameter", <<objectHandle, parameterID>>)
simxSetObjectIntParameter(objectHandle, parameterID) ==
    exec_intint_buffer("set_object_int_parameter", <<objectHandle, parameterID>>)
simxGetModelProperty(objectHandle) == exec_int("get_model_property", <<objectHandle>>)
simxSetModelProperty(objectHandle) == exec_int_int("set_model_property", <<objectHandle>>)
simxQuery(signalName, retSignalName) ==
    <<Step(simxClearStringSignal(retSignalName), "oneshot"),
      Step(simxGetAndClearStringSignal(retSignalName), "remove"),
      Step(simxGetAndClearStringSignal(retSignalName), "streaming"),
      Decides(Step(simxSetStringSignal(signalName), "blocking")),
      [UnlessFailed(Step(simxGetAndClearStringSignal(retSignalName), "buffer"))
          EXCEPT !.polls = TRUE]>>
simxGetObjectGroupData(objectType, dataType) ==
    exec_intint("get_object_group_data", <<objectType, dataType>>)
simxGetObjectVelocity(objectHandle) == exec_int("get_object_velocity", <<objectHandle>>)

(* The wrappers for Matlab pass their arguments on *)

mtlb_simxSetJointPosition(jointHandle) == simxSetJointPosition(jointHandle)
mtlb_simxSetJointTargetVelocity(jointHandle) == simxSetJointTargetVelocity(jointHandle)
mtlb_simxSetJointTargetPosition(jointHandle) == simxSetJointTargetPosition(jointHandle)
mtlb_simxSetJointForce(jointHandle) == simxSetJointForce(jointHandle)
mtlb_simxSetFloatSignal(signalName) == simxSetFloatSignal(signalName)
mtlb_simxSetObjectFloatParameter(objectHandle, parameterID) ==
    simxSetObjectFloatParameter(objectHandle, parameterID)
mtlb_simxSetFloatingParameter(paramIdentifier) == simxSetFloatingParameter(paramIdentifier)
mtlb_simxCreateDummy == simxCreateDummy
mtlb_simxReadProximitySensor(sensorHandle) == simxReadProximitySensor(sensorHandle)
mtlb_simxAuxiliaryConsoleOpen(title) == simxAuxiliaryConsoleOpen(title)
mtlb_simxDisplayDialog(titleText) == simxDisplayDialog(titleText)
mtlb_simxQuery(signalName, retSignalName) == simxQuery(signalName, retSignalName)
mtlb_simxGetObjectGroupData(objectType, dataType) ==
    simxGetObjectGroupData(objectType, dataType)

\* ... in two parts: _a packs the arguments into _tmpBuffer, _b makes the call with them.
mtlb_simxCallScriptFunction_a(options, scriptDescription, functionName) ==
    <<options, scriptDescription, functionName>>
mtlb_simxCallScriptFunction_b(tmpBuffer) ==
    simxCallScriptFunction(tmpBuffer[1], tmpBuffer[2], tmpBuffer[3])

simxGetPingTime == Call(simxGetIntegerParameter("sim_intparam_program_version"), "blocking")
=============================================================================
