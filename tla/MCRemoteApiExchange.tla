------------------------ MODULE MCRemoteApiExchange ------------------------
(***************************************************************************)
(* Small instances of RemoteApiExchange.                                   *)
(***************************************************************************)
EXTENDS RemoteApiExchange

\* Two commands of a program: a sensor that is streamed, read from the inbox and also
\* asked for with a blocking call, and a command queued by _exec_null.
SafetyCalls ==
    [cmd : {"sensor"}, mode : {"streaming", "blocking", "buffer", "discontinue"}]
      \cup [cmd : {"selection"}, mode : {"oneshot", "blocking", "remove", "discontinue"}]

LivenessCalls ==
    [cmd : {"sensor"}, mode : {"streaming", "blocking"}]
      \cup [cmd : {"selection"}, mode : {"oneshot"}]

SelectionCalls ==
    [cmd : {"selection"}, mode : {"blocking", "discontinue"}]
=============================================================================
