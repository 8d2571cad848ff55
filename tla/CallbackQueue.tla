---------------------------- MODULE CallbackQueue ----------------------------
(***************************************************************************)
(* What the callback thread of the module promises to the code that posts  *)
(* to it: callbacks that are accepted are made one at a time, in the order *)
(* in which they were accepted, each exactly once.  There are no threads   *)
(* here; AQCallbackDispatcher shows how the code keeps the promise with    *)
(* threads that come and go.                                               *)
(***************************************************************************)
EXTENDS Sequences

CONSTANTS
    Callbacks,  \* the callbacks that can be posted
    NoCallback  \* no callback is being made

VARIABLES
    pending,    \* accepted and not made yet, in order
    making      \* the callback that is being made, or NoCallback

vars == <<pending, making>>

Init == pending = << >> /\ making = NoCallback

(***************************************************************************)
(* A callback is accepted.                                                 *)
(***************************************************************************)
Accept == /\ \E c \in Callbacks : pending' = Append(pending, c)
          /\ UNCHANGED making

(***************************************************************************)
(* The oldest accepted callback is started; no other is being made.        *)
(***************************************************************************)
Begin == /\ making = NoCallback
         /\ pending # << >>
         /\ making' = Head(pending)
         /\ pending' = Tail(pending)

(***************************************************************************)
(* The callback returns.                                                   *)
(***************************************************************************)
End == /\ making # NoCallback
       /\ making' = NoCallback
       /\ UNCHANGED pending

Next == Accept \/ Begin \/ End

Safe == Init /\ [][Next]_vars

Spec == Safe /\ WF_vars(Begin) /\ WF_vars(End)
=============================================================================
