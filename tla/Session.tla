------------------------------ MODULE Session ------------------------------
(***************************************************************************)
(* What a connection promises a client that waits for its replies: it runs *)
(* one command at a time, and a command takes effect on the session in one *)
(* step, when it ends, with the arguments it was sent with and in a state  *)
(* in which it makes sense; the rest of the time the session stands still. *)
(* Nothing here knows of authorizers, drivers, hashes, replies, timeouts,  *)
(* errors and their limits, or of how long a command waits for what; the   *)
(* module Connection is shown to implement this one.                       *)
(***************************************************************************)
CONSTANTS Users, NoUser, Mailboxes, INBOX, Commands, Nothing

VARIABLES
  state, authenticatedUser, currentlySelectedMailbox, hasWritePermission,
  running    \* the command that runs, if any

session == <<state, authenticatedUser, currentlySelectedMailbox, hasWritePermission>>
sessionVars == <<session, running>>

Requests ==
  {r \in [command : Commands, argument : Users \cup {NoUser} \cup Mailboxes \cup {Nothing}] :
     r.command \in {"SELECT", "EXAMINE"} => r.argument \in Mailboxes}

Init ==
  /\ state = "NOT_AUTHENTICATED"
  /\ authenticatedUser = NoUser
  /\ currentlySelectedMailbox = INBOX
  /\ hasWritePermission = TRUE
  /\ running = {}

-----------------------------------------------------------------------------
(* The effects.  The user is the one the authenticator names, who may have *)
(* the empty name.                                                         *)

Authenticate(r) ==
  /\ r.command \in {"LOGIN", "AUTHENTICATE"}
  /\ state = "NOT_AUTHENTICATED"
  /\ state' = "AUTHENTICATED"
  /\ authenticatedUser' \in Users \cup {NoUser}
  /\ UNCHANGED <<currentlySelectedMailbox, hasWritePermission>>

Select(r) ==
  /\ r.command = "SELECT"
  /\ state = "AUTHENTICATED"
  /\ state' = "SELECTED"
  /\ currentlySelectedMailbox' = r.argument
  /\ hasWritePermission' = TRUE
  /\ UNCHANGED authenticatedUser

(* EXAMINE takes the mailbox, but does not enter the selected state.       *)
Examine(r) ==
  /\ r.command = "EXAMINE"
  /\ state = "AUTHENTICATED"
  /\ currentlySelectedMailbox' = r.argument
  /\ hasWritePermission' = FALSE
  /\ UNCHANGED <<state, authenticatedUser>>

Logout(r) ==
  /\ r.command = "LOGOUT"
  /\ state' = "LOGOUT"
  /\ authenticatedUser' = NoUser
  /\ UNCHANGED <<currentlySelectedMailbox, hasWritePermission>>

-----------------------------------------------------------------------------
Begin ==
  /\ running = {}
  /\ \E r \in Requests : running' = {r}
  /\ UNCHANGED session

(* A command may have no effect: it fails, is refused, or is none of these.*)
End ==
  /\ running' = {}
  /\ \E r \in running :
       Authenticate(r) \/ Select(r) \/ Examine(r) \/ Logout(r) \/ UNCHANGED session

(* A LOGOUT that waits for no authorizer.                                  *)
LogoutAtOnce ==
  /\ running = {}
  /\ \E r \in Requests : Logout(r)
  /\ UNCHANGED running

Next == Begin \/ End \/ LogoutAtOnce

Spec == Init /\ [][Next]_sessionVars
=============================================================================
