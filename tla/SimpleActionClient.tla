--------------------------- MODULE SimpleActionClient --------------------------
(***************************************************************************)
(* The repository's SimpleActionClient (simple_action_client.h), the class *)
(* through which its nodes use actions.  The "main" thread calls it; the   *)
(* "spin" thread of the client runs handleTransition for each change of a  *)
(* goal it tracks, and the done callback, which may send the next goal.    *)
(* Nothing keeps the two from sending at the same time, and the navigation *)
(* server's threads do; from then on no property says anything.  Until     *)
(* then it makes no difference whether "main" is one thread or several     *)
(* that take turns.                                                        *)
(*                                                                         *)
(* External and modelled from how this class uses it: the goal handles of  *)
(* the action library, their communication states, and the server.  After  *)
(* gh_.reset() the callbacks of the old goal are not called any more: the  *)
(* call waits for one that runs on the other thread, as do cancel() and    *)
(* the sending of a goal.                                                  *)
(* Feedback passes through without a change of state and is left out.      *)
(***************************************************************************)
EXTENDS Naturals

CONSTANT MaxGoals   \* bound: how many goals are sent

ASSUME ConstantsAssumption == MaxGoals \in Nat

VARIABLES
  gh_,                \* the goal tracked, 0 if it is expired
  cur_simple_state_,
  done_cb_,           \* the goal whose callback is stored, 0 for none
  comm,               \* getCommState() of each goal
  terminal,           \* getTerminalState() of each goal
  tracked,            \* the goals whose handles exist
  active,             \* the goals the server has started
  sent,               \* how many goals were sent
  reported,           \* what each goal's callback was called with
  pc,                 \* where each thread is
  waits,              \* main is in sendGoalAndWait
  changed,            \* spin: the goal whose transition it handles
  bug,                \* an error that says "BUG" was logged
  mine,               \* the goal each thread has sent and not stored yet, 0 for none
  overlapped          \* two threads have been in sendGoal at the same time

library == <<comm, terminal, tracked, active, sent>>
senders == <<mine, overlapped>>
vars == <<gh_, cur_simple_state_, done_cb_, library, reported, pc, waits,
          changed, bug, senders>>

Threads  == {"main", "spin"}
Goals    == 1..MaxGoals
Terminal == {"RECALLED", "REJECTED", "PREEMPTED", "ABORTED", "SUCCEEDED", "LOST"}

SimpleState == {"PENDING", "ACTIVE", "DONE"}

CommState == {"WAITING_FOR_GOAL_ACK", "PENDING", "ACTIVE", "WAITING_FOR_RESULT",
              "WAITING_FOR_CANCEL_ACK", "RECALLING", "PREEMPTING", "DONE"}

Init ==
  /\ gh_ = 0
  /\ cur_simple_state_ = "PENDING"
  /\ done_cb_ = 0
  /\ comm = [g \in Goals |-> "unsent"]
  /\ terminal = [g \in Goals |-> "open"]
  /\ tracked = {} /\ active = {}
  /\ sent = 0
  /\ reported = [g \in Goals |-> "none"]
  /\ pc = [t \in Threads |-> "idle"]
  /\ waits = FALSE
  /\ changed = 0
  /\ bug = FALSE
  /\ mine = [t \in Threads |-> 0] /\ overlapped = FALSE

At(t, place) == pc[t] = place
GoTo(t, place) == pc' = [pc EXCEPT ![t] = place]

InCallback == ~At("spin", "idle")

\* Where a thread is in sendGoal, and where its goal is not yet sent.
Begun(t) == pc[t] \in {"sendGoal", "store", "send"}
Sending(t) == Begun(t) \/ At(t, "assign")

\* There is a goal left for a thread while the other is where it is.
GoalLeft(other) == IF Begun(other) THEN sent + 1 < MaxGoals ELSE sent < MaxGoals

\* The library lets no other thread send or touch a goal while a callback runs.
MaySend(t) == t = "spin" \/ ~InCallback
MayTouchGoal(t) == gh_ = 0 \/ MaySend(t)

Waiting == {"WAITING_FOR_RESULT", "WAITING_FOR_CANCEL_ACK"}

\* Variant: the state is the simple state.
State_Simple == cur_simple_state_

\* getState.
State ==
  CASE gh_ = 0 -> "LOST"
    [] gh_ # 0 /\ comm[gh_] \in {"WAITING_FOR_GOAL_ACK", "PENDING", "RECALLING"}
         -> "PENDING"
    [] gh_ # 0 /\ comm[gh_] \in {"ACTIVE", "PREEMPTING"} -> "ACTIVE"
    [] gh_ # 0 /\ comm[gh_] = "DONE" -> terminal[gh_]
    [] gh_ # 0 /\ comm[gh_] \in Waiting
         -> IF cur_simple_state_ = "DONE" THEN "LOST" ELSE cur_simple_state_

-----------------------------------------------------------------------------
(* sendGoal, on either thread.                                             *)

\* Variant: the old goal is not reset.
TrackedAfterReset_All == tracked

TrackedAfterReset == tracked \ {gh_}

Reset(t) ==
  /\ At(t, "sendGoal")
  /\ MayTouchGoal(t)
  /\ gh_' = 0
  /\ tracked' = TrackedAfterReset
  /\ GoTo(t, "store")
  /\ UNCHANGED <<cur_simple_state_, done_cb_, comm, terminal, active, sent,
                 reported, waits, changed, bug, senders>>

\* Variant: sendGoalAndWait leaves the callback of the goal before.
StoredCallback_Keeps(t) == IF t = "main" /\ waits THEN done_cb_ ELSE sent + 1

\* sendGoalAndWait passes no callback.  A goal has its number from Send on; the
\* callback stored before is that of the next one, unless the other thread sends
\* first.
StoredCallback(t) == IF t = "main" /\ waits THEN 0 ELSE sent + 1

StoreCallbacks(t) ==
  /\ At(t, "store")
  /\ done_cb_' = StoredCallback(t)
  /\ cur_simple_state_' = "PENDING"
  /\ GoTo(t, "send")
  /\ UNCHANGED <<gh_, library, reported, waits, changed, bug, senders>>

Send(t) ==
  /\ At(t, "send")
  /\ MaySend(t)
  /\ sent' = sent + 1
  /\ comm' = [comm EXCEPT ![sent'] = "WAITING_FOR_GOAL_ACK"]
  /\ tracked' = tracked \union {sent'}
  /\ mine' = [mine EXCEPT ![t] = sent']
  /\ GoTo(t, "assign")
  /\ UNCHANGED <<gh_, cur_simple_state_, done_cb_, terminal, active, reported,
                 waits, changed, bug, overlapped>>

\* The handle is stored after the goal is sent.
AssignHandle(t) ==
  /\ At(t, "assign")
  /\ MayTouchGoal(t)
  /\ gh_' = mine[t]
  /\ tracked' = tracked \ {gh_}
  /\ mine' = [mine EXCEPT ![t] = 0]
  /\ GoTo(t, IF t = "spin" THEN "return" ELSE IF waits THEN "wait" ELSE "idle")
  /\ UNCHANGED <<cur_simple_state_, done_cb_, comm, terminal, active, sent,
                 reported, waits, changed, bug, overlapped>>

-----------------------------------------------------------------------------
(* The calls of the main thread.                                           *)

MainSends(wait) ==
  /\ At("main", "idle")
  /\ GoalLeft("spin")
  /\ overlapped' = (overlapped \/ Sending("spin"))
  /\ waits' = wait
  /\ GoTo("main", "sendGoal")
  /\ UNCHANGED <<gh_, cur_simple_state_, done_cb_, library, reported, changed,
                 bug, mine>>

\* cancelGoal, by itself or when the time of sendGoalAndWait is over.
CancelGoal ==
  /\ pc["main"] \in {"idle", "cancel"}
  /\ MayTouchGoal("main")
  /\ comm' = IF gh_ # 0 /\ comm[gh_] \in {"WAITING_FOR_GOAL_ACK", "PENDING", "ACTIVE"}
             THEN [comm EXCEPT ![gh_] = "WAITING_FOR_CANCEL_ACK"]
             ELSE comm
  /\ GoTo("main", IF At("main", "cancel") THEN "wait again" ELSE "idle")
  /\ UNCHANGED <<gh_, cur_simple_state_, done_cb_, terminal, tracked, active,
                 sent, reported, waits, changed, bug, senders>>

StopTrackingGoal ==
  /\ At("main", "idle")
  /\ MayTouchGoal("main")
  /\ gh_' = 0
  /\ tracked' = tracked \ {gh_}
  /\ UNCHANGED <<cur_simple_state_, done_cb_, comm, terminal, active, sent,
                 reported, pc, waits, changed, bug, senders>>

\* waitForResult finds the goal done, and sendGoalAndWait returns its state.
Finished ==
  /\ pc["main"] \in {"wait", "wait again"}
  /\ cur_simple_state_ = "DONE"
  /\ GoTo("main", "idle")
  /\ waits' = FALSE
  /\ UNCHANGED <<gh_, cur_simple_state_, done_cb_, library, reported, changed,
                 bug, senders>>

\* The time given to sendGoalAndWait, if any, is over.
TimedOut ==
  /\ cur_simple_state_ # "DONE"
  /\ \/ /\ At("main", "wait")
        /\ GoTo("main", "cancel")
        /\ UNCHANGED waits
     \/ /\ At("main", "wait again")
        /\ GoTo("main", "idle")
        /\ waits' = FALSE
  /\ UNCHANGED <<gh_, cur_simple_state_, done_cb_, library, reported, changed,
                 bug, senders>>

Main ==
  \/ Reset("main") \/ StoreCallbacks("main") \/ Send("main")
  \/ AssignHandle("main")
  \/ At("main", "cancel") /\ CancelGoal
  \/ Finished

-----------------------------------------------------------------------------
(* The spin thread.                                                        *)

\* The communication states of a goal, as the server answers.  It is lost when
\* the server forgets it.
Successors(g) ==
  CASE comm[g] = "WAITING_FOR_GOAL_ACK" -> {"PENDING", "ACTIVE"}
    [] comm[g] = "PENDING" -> {"ACTIVE", "RECALLING", "WAITING_FOR_RESULT"}
    [] comm[g] = "ACTIVE" -> {"PREEMPTING", "WAITING_FOR_RESULT"}
    [] comm[g] = "WAITING_FOR_CANCEL_ACK"
         -> {"PREEMPTING", "WAITING_FOR_RESULT"}
            \union (IF g \in active THEN {} ELSE {"RECALLING"})
    [] comm[g] = "RECALLING" -> {"PREEMPTING", "WAITING_FOR_RESULT"}
    [] comm[g] = "PREEMPTING" -> {"WAITING_FOR_RESULT"}
    [] OTHER -> {}

Outcomes(g) == IF comm[g] = "WAITING_FOR_RESULT" THEN Terminal ELSE {"LOST"}

\* The library changes a goal's state and calls handleTransition.
Transition(g) ==
  /\ At("spin", "idle")
  /\ g \in tracked
  /\ comm[g] # "DONE"
  /\ \/ \E s \in Successors(g) :
          /\ comm' = [comm EXCEPT ![g] = s]
          /\ active' = IF s \in {"ACTIVE", "PREEMPTING"} THEN active \union {g}
                       ELSE active
          /\ UNCHANGED terminal
     \/ \E s \in Outcomes(g) :
          /\ comm' = [comm EXCEPT ![g] = "DONE"]
          /\ terminal' = [terminal EXCEPT ![g] = s]
          /\ UNCHANGED active
  /\ changed' = g
  /\ GoTo("spin", "handle")
  /\ UNCHANGED <<gh_, cur_simple_state_, done_cb_, tracked, sent, reported,
                 waits, bug, senders>>

\* Variant: only a goal that was active is taken to be done.
Unfinished_Active == {"ACTIVE"}

Unfinished == {"PENDING", "ACTIVE"}

HandleDone ==
  /\ At("spin", "handle")
  /\ comm[changed] = "DONE"
  /\ \/ /\ cur_simple_state_ \in Unfinished
        /\ cur_simple_state_' = "DONE"
        /\ GoTo("spin", "callback")
        /\ UNCHANGED <<changed, bug>>
     \/ /\ cur_simple_state_ \notin Unfinished
        /\ bug' = (bug \/ cur_simple_state_ = "DONE")
        /\ GoTo("spin", "idle")
        /\ changed' = 0
        /\ UNCHANGED cur_simple_state_
  /\ UNCHANGED <<gh_, done_cb_, library, reported, waits, senders>>

\* The state that handling any other transition leaves.
NextSimpleState(s) ==
  IF comm[changed] \in {"ACTIVE", "PREEMPTING"} /\ s = "PENDING" THEN "ACTIVE"
  ELSE s

\* The simple states in which a transition to a communication state is a bug.
Unexpected(s) ==
  CASE s \in {"PENDING", "RECALLING"} -> {"ACTIVE", "DONE"}
    [] s \in {"ACTIVE", "PREEMPTING"} -> {"DONE"}
    [] OTHER -> {}

HandleOther ==
  /\ At("spin", "handle")
  /\ comm[changed] # "DONE"
  /\ cur_simple_state_' = NextSimpleState(cur_simple_state_)
  /\ bug' = (bug \/ cur_simple_state_ \in Unexpected(comm[changed]))
  /\ GoTo("spin", "idle")
  /\ changed' = 0
  /\ UNCHANGED <<gh_, done_cb_, library, reported, waits, senders>>

\* done_cb_ is called, if there is one, and may send a goal.
CallDoneCallback ==
  /\ At("spin", "callback")
  /\ \/ /\ done_cb_ = 0
        /\ GoTo("spin", "return")
        /\ UNCHANGED <<reported, overlapped>>
     \/ /\ done_cb_ # 0
        /\ reported' = [reported EXCEPT ![done_cb_] = State]
        /\ \/ /\ GoTo("spin", "return")
              /\ UNCHANGED overlapped
           \/ /\ GoalLeft("main")
              /\ overlapped' = (overlapped \/ Sending("main"))
              /\ GoTo("spin", "sendGoal")
  /\ UNCHANGED <<gh_, cur_simple_state_, done_cb_, library, waits, changed, bug,
                 mine>>

\* Variant: the state is set to DONE when the callback has returned.
AfterCallback_Done == "DONE"

AfterCallback == cur_simple_state_

Return ==
  /\ At("spin", "return")
  /\ cur_simple_state_' = AfterCallback
  /\ GoTo("spin", "idle")
  /\ changed' = 0
  /\ UNCHANGED <<gh_, done_cb_, library, reported, waits, bug, senders>>

Spin ==
  \/ \E g \in Goals : Transition(g)
  \/ HandleDone
  \/ HandleOther
  \/ CallDoneCallback
  \/ Reset("spin") \/ StoreCallbacks("spin") \/ Send("spin")
  \/ AssignHandle("spin")
  \/ Return

-----------------------------------------------------------------------------
Next ==
  \/ \E wait \in BOOLEAN : MainSends(wait)
  \/ CancelGoal
  \/ StopTrackingGoal
  \/ TimedOut
  \/ Main
  \/ Spin

Spec == Init /\ [][Next]_vars

\* Both threads are scheduled, and the server ends every goal.
FairSpec == Spec /\ WF_vars(Main) /\ WF_vars(Spin)

-----------------------------------------------------------------------------
Places == {"idle", "sendGoal", "store", "send", "assign", "wait", "cancel",
           "wait again", "handle", "callback", "return"}

(* The handle is that of a goal sent or none, a transition is only handled *)
(* for a goal that was sent, and no callback is told just that its goal is *)
(* done.                                                                   *)
TypeOK ==
  /\ gh_ \in 0..sent
  /\ cur_simple_state_ \in SimpleState
  /\ done_cb_ \in 0..MaxGoals
  /\ comm \in [Goals -> CommState \union {"unsent"}]
  /\ terminal \in [Goals -> Terminal \union {"open"}]
  /\ tracked \subseteq 1..sent /\ active \subseteq 1..sent
  /\ sent \in 0..MaxGoals
  /\ reported \in [Goals -> Terminal \union {"PENDING", "ACTIVE", "none"}]
  /\ pc \in [Threads -> Places]
  /\ waits \in BOOLEAN
  /\ changed \in 0..sent
  /\ bug \in BOOLEAN
  /\ mine \in [Threads -> 0..sent] /\ overlapped \in BOOLEAN

(* A client whose state says DONE has no goal that still runs: what wakes  *)
(* up a waiting caller is the end of the goal it waits for, although a     *)
(* done callback may have sent another in between; as long as no two       *)
(* threads have sent at the same time.                                     *)
DoneMeansDone ==
  ~overlapped => (cur_simple_state_ = "DONE" => comm[sent] = "DONE")

(* No transition finds the client in a state in which handleTransition     *)
(* logs that this is a bug, as long as no two threads have sent at the     *)
(* same time.                                                              *)
NoBug == ~overlapped => ~bug

(* handleTransition says of the errors it logs that they are bugs          *)
(* (simple_action_client.h:501-566), whoever sends.                        *)
NeverABug == ~bug

(* sendGoalAndWait returns the state its goal ended with, as long as no    *)
(* two threads have sent at the same time.                                 *)
WaitReturnsOutcome ==
  ~overlapped /\ pc["main"] \in {"wait", "wait again"} /\ cur_simple_state_ = "DONE"
  => State = terminal[sent] /\ State \in Terminal

(* A caller that waits is woken up, or gives up, unless two threads have   *)
(* sent at the same time.                                                  *)
WaitEnds == At("main", "wait") ~> ~At("main", "wait") \/ overlapped

(* Goals end once and are reported once, while they are current, as long   *)
(* as no two threads have sent at the same time.                           *)
Promise == INSTANCE ActionGoals WITH current <- sent, outcome <- terminal
OneReport ==
  /\ Promise!Init
  /\ [][Promise!Next \/ overlapped']_<<sent, terminal, reported>>

=============================================================================
