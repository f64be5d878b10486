------------------------------ MODULE Handlers ------------------------------
(***************************************************************************)
(* HTTP handlers in progress.  A request goes through a handler, a use     *)
(* case and repository calls; what is kept between two calls that read or  *)
(* write the database is the handler's record here: the operation, the     *)
(* user the JWT names, the validated input and the documents read so far.  *)
(*                                                                         *)
(* A request that is rejected before its first write changes nothing and   *)
(* is not represented: a handler's first step is its last check that       *)
(* passed, together with the read it was made on.                          *)
(***************************************************************************)
EXTENDS Integers, FiniteSets

CONSTANTS
  Users,         \* authenticated users
  NoOne,         \* no user
  Slots,         \* handlers that may be in progress at once
  MaxRequests    \* bound on the requests of one behaviour

ASSUME HandlersAssumption ==
  /\ NoOne \notin Users
  /\ MaxRequests \in Nat
  /\ IsFiniteSet(Slots)

VARIABLES
  calls,         \* the handler in each slot
  served         \* requests accepted so far

handlerVars == <<calls, served>>

NoCall == [op |-> "none"]
HandlersInit == calls = [s \in Slots |-> NoCall] /\ served = 0

At(s, op) == calls[s].op = op

\* A request passed its checks; call is what its handler keeps.
Begin(s, call) ==
  /\ At(s, "none") /\ served < MaxRequests
  /\ calls' = [calls EXCEPT ![s] = call]
  /\ served' = served + 1

\* The handler goes on to its next call, or returns.
Continue(s, call) == calls' = [calls EXCEPT ![s] = call] /\ UNCHANGED served
Finish(s) == Continue(s, NoCall)

\* The next call fails, the client goes away or the process crashes.
Abort(s) == ~At(s, "none") /\ Finish(s)

=============================================================================
