--------------------------- MODULE CommandStream ---------------------------
(***************************************************************************)
(* What a connection promises a client that keeps to the protocol: its     *)
(* commands are executed as they were sent, each once and in order, and in *)
(* the end all of them.                                                    *)
(***************************************************************************)
EXTENDS Naturals, Sequences

VARIABLES
  sent,      \* the commands of the client
  executed   \* those executed so far

streamVars == <<sent, executed>>

StreamInit == executed = <<>>

ExecuteNext ==
  /\ Len(executed) < Len(sent)
  /\ executed' = Append(executed, sent[Len(executed) + 1])
  /\ UNCHANGED sent

StreamSpec == StreamInit /\ [][ExecuteNext]_streamVars /\ WF_streamVars(ExecuteNext)
=============================================================================
