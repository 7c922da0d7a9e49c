----------------------- MODULE SimpleActionClientProofs ------------------------
(***************************************************************************)
(* SimpleActionClient keeps its promise, ActionGoals, for any number of    *)
(* goals, as long as no two threads have been in sendGoal at the same      *)
(* time.  Until then no two goals are tracked, and a running callback      *)
(* keeps the other thread from replacing its goal.                         *)
(***************************************************************************)
EXTENDS SimpleActionClient, TLAPS

AtOneOf(t, places) == pc[t] \in places
SomeAt(place) == At("main", place) \/ At("spin", place)

\* One thread at a time sends, and only when there is a goal left to send.
SenderInv ==
  /\ ~(Sending("main") /\ Sending("spin"))
  /\ SomeAt("sendGoal") \/ SomeAt("store") \/ SomeAt("send") => sent < MaxGoals
  /\ SomeAt("assign") => sent # 0
  /\ \A t \in Threads : At(t, "assign") => mine[t] = sent

\* The handle and the goals that the library tracks, by where a sender is.
HandleInv ==
  /\ gh_ \in {0, sent}
  /\ tracked \subseteq {sent} \ {0}
  /\ SomeAt("store") \/ SomeAt("send") \/ SomeAt("assign") => gh_ = 0
  /\ gh_ = 0 /\ ~SomeAt("assign") => tracked = {}

\* While a transition is handled its goal is the one sent last, and the other
\* thread is not between giving up its handle and sending the next goal.
CallbackInv ==
  /\ AtOneOf("spin", {"handle", "callback", "sendGoal"})
       => changed = sent /\ sent # 0
  /\ AtOneOf("spin", {"handle", "callback", "sendGoal", "return"})
       => gh_ # 0 \/ At("main", "assign")
  /\ At("spin", "callback") => cur_simple_state_ = "DONE"
  /\ At("spin", "handle") => cur_simple_state_ # "DONE"
  /\ AtOneOf("spin", {"idle", "handle", "callback", "sendGoal", "store", "send",
                      "assign", "return"})
  /\ ~AtOneOf("main", {"handle", "callback", "return"})

\* The simple state follows the communication state of the goal sent last.
StateInv ==
  /\ cur_simple_state_ = "DONE" => sent # 0 /\ comm[sent] = "DONE"
  /\ cur_simple_state_ = "ACTIVE" => sent \in active
  /\ SomeAt("send") => cur_simple_state_ = "PENDING"
  /\ \A g \in active :
       comm[g] \notin {"WAITING_FOR_GOAL_ACK", "PENDING", "RECALLING"}
  /\ \A g \in Goals : comm[g] \in {"ACTIVE", "PREEMPTING"} => g \in active

\* A callback is stored for the goal sent last or, just before it is sent, for
\* the next, and is not called before that goal is over.
ReportInv ==
  /\ SomeAt("send") => done_cb_ \in {0, sent + 1}
  /\ ~SomeAt("send") => done_cb_ \in {0, sent}
  /\ \A g \in Goals :
       /\ comm[g] = "DONE" <=> terminal[g] # "open"
       /\ g > sent => comm[g] = "unsent" /\ reported[g] = "none"
       /\ comm[g] # "DONE"
          \/ (g = sent /\ AtOneOf("spin", {"handle", "callback"}))
            => reported[g] = "none"

\* What holds whether or not the threads take turns: there is a goal for each
\* thread that is to send one, and a goal that was sent has states.
GoalsInv ==
  /\ \A t \in Threads : Begun(t) => sent < MaxGoals
  /\ Begun("main") /\ Begun("spin") => sent + 1 < MaxGoals
  /\ \A g \in Goals : g <= sent => comm[g] # "unsent"
  /\ \A g \in Goals : comm[g] = "DONE" => terminal[g] # "open"

FreeInv == TypeOK /\ GoalsInv

\* What holds as long as they do.
Alone ==
  /\ ~overlapped
  /\ FreeInv
  /\ SenderInv
  /\ HandleInv
  /\ CallbackInv
  /\ StateInv
  /\ ReportInv
  /\ NoBug

\* A thread that goes on leaves the others where they are.
LEMMA PcAfter ==
  ASSUME pc \in [Threads -> Places], NEW t \in Threads, NEW place \in Places,
         GoTo(t, place)
  PROVE  /\ pc' \in [Threads -> Places]
         /\ pc'[t] = place
         /\ \A u \in Threads : u # t => pc'[u] = pc[u]
  BY DEF GoTo

\* The client starts with no goal and both threads idle.
LEMMA InitEstablishes == Init => FreeInv /\ Alone
  <1> SUFFICES ASSUME Init PROVE FreeInv /\ Alone
    OBVIOUS
  <1>1. TypeOK
    <2>1. /\ 0 \in 0..0 /\ 0 \in 0..MaxGoals /\ {} \subseteq 1..0
          /\ "idle" \in Places /\ "PENDING" \in SimpleState
      BY ConstantsAssumption DEF Places, SimpleState
    <2>2. mine \in [Threads -> 0..0] /\ pc \in [Threads -> Places]
      BY <2>1 DEF Init
    <2> QED
      BY <2>1, <2>2 DEF Init, TypeOK
  <1>2. pc["main"] = "idle" /\ pc["spin"] = "idle"
    BY DEF Init, Threads
  <1>3. SenderInv /\ HandleInv /\ CallbackInv
    BY <1>2 DEF Init, SenderInv, HandleInv, CallbackInv, Sending, Begun,
                SomeAt, At, AtOneOf, Threads
  <1>4. StateInv /\ ReportInv
    BY <1>2 DEF Init, StateInv, ReportInv
  <1>5. GoalsInv
    BY <1>2, ConstantsAssumption DEF Init, GoalsInv, Begun, Threads, Goals
  <1> QED
    BY <1>1, <1>3, <1>4, <1>5 DEF Alone, FreeInv, Init, NoBug

\* Types and goals, where a thread sends a goal.
LEMMA SendingKeepsFree ==
  ASSUME FreeInv, NEW t \in Threads,
         Reset(t) \/ StoreCallbacks(t) \/ Send(t) \/ AssignHandle(t)
  PROVE  FreeInv'
  <1> USE DEF FreeInv, library, senders, At, Begun
  <1>0. sent \in Nat /\ MaxGoals \in Nat /\ Threads = {"main", "spin"}
    BY ConstantsAssumption DEF TypeOK, Threads
  <1>1. CASE Reset(t)
    <2>1. /\ pc' \in [Threads -> Places] /\ pc[t] = "sendGoal" /\ pc'[t] = "store"
          /\ \A u \in Threads : u # t => pc'[u] = pc[u]
      BY <1>1, PcAfter DEF Reset, TypeOK, Places
    <2>2. TypeOK'
      BY <1>0, <1>1, <2>1 DEF Reset, TrackedAfterReset, TypeOK
    <2>3. GoalsInv'
      BY <1>0, <1>1, <2>1 DEF Reset, GoalsInv
    <2> QED  BY <2>2, <2>3
  <1>2. CASE StoreCallbacks(t)
    <2>1. /\ pc' \in [Threads -> Places] /\ pc[t] = "store" /\ pc'[t] = "send"
          /\ \A u \in Threads : u # t => pc'[u] = pc[u]
      BY <1>2, PcAfter DEF StoreCallbacks, TypeOK, Places
    <2>2. done_cb_' \in 0..MaxGoals
      <3>1. sent < MaxGoals  BY <2>1 DEF GoalsInv
      <3> QED  BY <1>0, <1>2, <3>1 DEF StoreCallbacks, StoredCallback
    <2>3. TypeOK'
      BY <1>0, <1>2, <2>1, <2>2 DEF StoreCallbacks, TypeOK, SimpleState
    <2>4. GoalsInv'
      BY <1>0, <1>2, <2>1 DEF StoreCallbacks, GoalsInv
    <2> QED  BY <2>3, <2>4
  <1>3. CASE Send(t)
    <2>1. /\ pc' \in [Threads -> Places] /\ pc[t] = "send" /\ pc'[t] = "assign"
          /\ \A u \in Threads : u # t => pc'[u] = pc[u]
      BY <1>3, PcAfter DEF Send, TypeOK, Places
    <2>2. sent < MaxGoals /\ sent' = sent + 1
      BY <1>3, <2>1 DEF Send, GoalsInv
    <2>3. /\ sent' \in 0..MaxGoals /\ sent' \in Goals
          /\ 0..sent \subseteq 0..sent' /\ 1..sent \subseteq 1..sent'
          /\ sent' \in 0..sent' /\ sent' \in 1..sent'
      BY <1>0, <2>2 DEF Goals
    <2>4. /\ comm' \in [Goals -> CommState \union {"unsent"}]
          /\ comm'[sent'] = "WAITING_FOR_GOAL_ACK"
          /\ \A g \in Goals : g # sent' => comm'[g] = comm[g]
          /\ terminal' = terminal
      BY <1>3, <2>3 DEF Send, TypeOK, CommState
    <2>5. mine' \in [Threads -> 0..sent'] /\ overlapped' = overlapped
      BY <1>3, <2>3 DEF Send, TypeOK
    <2>6. /\ tracked' \subseteq 1..sent' /\ active' \subseteq 1..sent'
          /\ gh_' \in 0..sent' /\ changed' \in 0..sent'
      BY <1>3, <2>3 DEF Send, TypeOK
    <2>7. TypeOK'
      BY <1>3, <2>1, <2>3, <2>4, <2>5, <2>6 DEF Send, TypeOK
    <2>8. GoalsInv'
      <3>1. \A u \in Threads : Begun(u)' => sent' < MaxGoals
        <4> SUFFICES ASSUME NEW u \in Threads, Begun(u)' PROVE sent' < MaxGoals
          OBVIOUS
        <4>1. u # t /\ Begun(u) /\ Begun(t)  BY <2>1
        <4>2. Begun("main") /\ Begun("spin")  BY <1>0, <4>1
        <4>3. sent + 1 < MaxGoals  BY <4>2 DEF GoalsInv
        <4> QED  BY <2>2, <4>3
      <3>2. ~(Begun("main")' /\ Begun("spin")')  BY <1>0, <2>1
      <3>3. \A g \in Goals : g <= sent' => comm'[g] # "unsent"
        <4> SUFFICES ASSUME NEW g \in Goals, g <= sent', g # sent'
                     PROVE  comm'[g] # "unsent"
          BY <2>4
        <4>1. g <= sent  BY <1>0, <2>2 DEF Goals
        <4> QED  BY <2>4, <4>1 DEF GoalsInv
      <3>4. \A g \in Goals : comm'[g] = "DONE" => terminal'[g] # "open"
        BY <2>4 DEF GoalsInv
      <3> QED  BY <3>1, <3>2, <3>3, <3>4 DEF GoalsInv
    <2> QED  BY <2>7, <2>8
  <1>4. CASE AssignHandle(t)
    <2> DEFINE place == IF t = "spin" THEN "return"
                        ELSE IF waits THEN "wait" ELSE "idle"
    <2>1. /\ pc' \in [Threads -> Places] /\ pc'[t] = place
          /\ \A u \in Threads : u # t => pc'[u] = pc[u]
      <3>1. GoTo(t, place) /\ place \in Places
        BY <1>4 DEF AssignHandle, Places
      <3> HIDE DEF place
      <3> QED  BY <3>1, PcAfter DEF TypeOK
    <2>2. TypeOK'
      BY <1>0, <1>4, <2>1 DEF AssignHandle, TypeOK
    <2>3. GoalsInv'
      BY <1>0, <1>4, <2>1 DEF AssignHandle, GoalsInv
    <2> QED  BY <2>2, <2>3
  <1> QED
    BY <1>1, <1>2, <1>3, <1>4

\* Types and goals, where the main thread calls the client.
LEMMA MainKeepsFree ==
  ASSUME FreeInv,
         \/ \E wait \in BOOLEAN : MainSends(wait)
         \/ CancelGoal \/ StopTrackingGoal \/ Finished \/ TimedOut
  PROVE  FreeInv'
  <1> USE DEF FreeInv, library, senders, At, Begun
  <1>0. sent \in Nat /\ MaxGoals \in Nat /\ Threads = {"main", "spin"}
        /\ "main" \in Threads
    BY ConstantsAssumption DEF TypeOK, Threads
  <1> DEFINE Went(places) ==
        /\ pc' \in [Threads -> Places] /\ pc'["main"] \in places
        /\ pc'["spin"] = pc["spin"]
  <1>a. ASSUME NEW place \in Places, GoTo("main", place)
        PROVE  Went({place})
    BY <1>0, <1>a, PcAfter DEF TypeOK
  <1>1. ASSUME NEW wait \in BOOLEAN, MainSends(wait) PROVE FreeInv'
    <2>1. Went({"sendGoal"}) /\ pc["main"] = "idle"
      BY <1>1, <1>a DEF MainSends, Places
    <2>2. TypeOK'
      BY <1>0, <1>1, <2>1 DEF MainSends, TypeOK
    <2>3. sent < MaxGoals /\ (Begun("spin") => sent + 1 < MaxGoals)
      BY <1>0, <1>1 DEF MainSends, GoalLeft
    <2>4. GoalsInv'
      BY <1>0, <1>1, <2>1, <2>3 DEF MainSends, GoalsInv
    <2> QED  BY <2>2, <2>4
  <1>2. CASE CancelGoal
    <2>1. Went({"wait again", "idle"})
      BY <1>2, <1>a DEF CancelGoal, Places
    <2>2. /\ comm' \in [Goals -> CommState \union {"unsent"}]
          /\ \A g \in Goals : comm'[g] = comm[g]
                               \/ comm'[g] = "WAITING_FOR_CANCEL_ACK"
      BY <1>2 DEF CancelGoal, TypeOK, CommState
    <2>3. UNCHANGED <<gh_, cur_simple_state_, done_cb_, terminal, tracked, active,
                      sent, reported, waits, changed, bug, mine, overlapped>>
      BY <1>2 DEF CancelGoal
    <2>4. TypeOK'
      BY <2>1, <2>2, <2>3 DEF TypeOK
    <2>5. GoalsInv'
      BY <1>0, <2>1, <2>2, <2>3 DEF GoalsInv
    <2> QED  BY <2>4, <2>5
  <1>3. CASE StopTrackingGoal
    <2>1. TypeOK'
      BY <1>0, <1>3 DEF StopTrackingGoal, TypeOK
    <2>2. GoalsInv'
      BY <1>3 DEF StopTrackingGoal, GoalsInv
    <2> QED  BY <2>1, <2>2
  <1>4. CASE Finished \/ TimedOut
    <2>1. Went({"cancel", "idle"})
      <3>1. GoTo("main", "cancel") \/ GoTo("main", "idle")
        BY <1>4 DEF Finished, TimedOut
      <3>2. "cancel" \in Places /\ "idle" \in Places  BY DEF Places
      <3> QED  BY <3>1, <3>2, <1>a
    <2>2. waits' \in BOOLEAN
      BY <1>4 DEF Finished, TimedOut, TypeOK
    <2>3. UNCHANGED <<gh_, cur_simple_state_, done_cb_, comm, terminal, tracked,
                      active, sent, reported, changed, bug, mine, overlapped>>
      BY <1>4 DEF Finished, TimedOut
    <2>4. TypeOK'
      BY <2>1, <2>2, <2>3 DEF TypeOK
    <2>5. GoalsInv'
      BY <1>0, <2>1, <2>3 DEF GoalsInv
    <2> QED  BY <2>4, <2>5
  <1> QED
    BY <1>1, <1>2, <1>3, <1>4

\* Types and goals, where the spin thread handles a transition.
LEMMA SpinKeepsFree ==
  ASSUME FreeInv,
         \/ \E g \in Goals : Transition(g)
         \/ HandleDone \/ HandleOther \/ CallDoneCallback \/ Return
  PROVE  FreeInv'
  <1> USE DEF FreeInv, library, senders, At, Begun
  <1>0. sent \in Nat /\ MaxGoals \in Nat /\ Threads = {"main", "spin"}
        /\ "spin" \in Threads /\ sent <= MaxGoals
    BY ConstantsAssumption DEF TypeOK, Threads
  <1> DEFINE Went(places) ==
        /\ pc' \in [Threads -> Places] /\ pc'["spin"] \in places
        /\ pc'["main"] = pc["main"]
  <1>a. ASSUME NEW place \in Places, GoTo("spin", place)
        PROVE  Went({place})
    BY <1>0, <1>a, PcAfter DEF TypeOK
  <1>b. /\ "handle" \in Places /\ "callback" \in Places /\ "idle" \in Places
        /\ "return" \in Places /\ "sendGoal" \in Places
    BY DEF Places
  <1>1. ASSUME NEW g \in Goals, Transition(g) PROVE FreeInv'
    <2>1. Went({"handle"})
      BY <1>1, <1>a, <1>b DEF Transition
    <2>2. g \in 1..sent /\ changed' = g
      BY <1>1 DEF Transition, TypeOK
    <2>3. /\ comm' \in [Goals -> CommState \union {"unsent"}]
          /\ terminal' \in [Goals -> Terminal \union {"open"}]
          /\ \A h \in Goals : h # g => /\ comm'[h] = comm[h]
                                       /\ terminal'[h] = terminal[h]
          /\ comm'[g] # "unsent"
          /\ comm'[g] = "DONE" => terminal'[g] # "open"
      BY <1>1 DEF Transition, TypeOK, Successors, CommState, Outcomes, Terminal
    <2>4. active' \subseteq 1..sent
      BY <1>1, <2>2 DEF Transition, TypeOK
    <2>5. UNCHANGED <<gh_, cur_simple_state_, done_cb_, tracked, sent, reported,
                      waits, bug, mine, overlapped>>
      BY <1>1 DEF Transition
    <2>6. TypeOK'
      BY <1>0, <2>1, <2>2, <2>3, <2>4, <2>5 DEF TypeOK
    <2>7. GoalsInv'
      BY <1>0, <2>1, <2>3, <2>5 DEF GoalsInv
    <2> QED  BY <2>6, <2>7
  <1>2. CASE HandleDone \/ HandleOther \/ Return
    <2>1. Went({"callback", "idle"})
      <3>1. GoTo("spin", "callback") \/ GoTo("spin", "idle")
        BY <1>2 DEF HandleDone, HandleOther, Return
      <3> QED  BY <3>1, <1>a, <1>b
    <2>2. UNCHANGED <<gh_, done_cb_, comm, terminal, tracked, active, sent,
                      reported, waits, mine, overlapped>>
      BY <1>2 DEF HandleDone, HandleOther, Return
    <2>3. bug' \in BOOLEAN
      BY <1>2 DEF HandleDone, HandleOther, Return, TypeOK
    <2>4. cur_simple_state_' \in SimpleState
      BY <1>2 DEF HandleDone, HandleOther, Return, NextSimpleState, AfterCallback,
                  TypeOK, SimpleState
    <2>5. changed' \in 0..sent
      BY <1>0, <1>2 DEF HandleDone, HandleOther, Return, TypeOK
    <2>6. TypeOK'
      BY <2>1, <2>2, <2>3, <2>4, <2>5 DEF TypeOK
    <2>7. GoalsInv'
      BY <1>0, <2>1, <2>2 DEF GoalsInv
    <2> QED  BY <2>6, <2>7
  <1>3. CASE CallDoneCallback
    <2>1. Went({"return", "sendGoal"})
      <3>1. GoTo("spin", "return") \/ GoTo("spin", "sendGoal")
        BY <1>3 DEF CallDoneCallback
      <3> QED  BY <3>1, <1>a, <1>b
    <2>2. pc'["spin"] = "sendGoal"
            => sent < MaxGoals /\ (Begun("main") => sent + 1 < MaxGoals)
      <3>1. CASE GoTo("spin", "return")
        <4>1. pc'["spin"] = "return"
          BY <3>1, <1>a, <1>b
        <4> QED  BY <4>1
      <3>2. CASE GoalLeft("main")
        BY <1>0, <3>2 DEF GoalLeft
      <3> QED  BY <1>3, <3>1, <3>2 DEF CallDoneCallback
    <2>3. State \in Terminal \union {"PENDING", "ACTIVE", "none"}
      <3>1. CASE gh_ = 0
        BY <3>1 DEF State, Terminal
      <3>2. CASE gh_ # 0
        <4>1. gh_ \in Goals /\ gh_ <= sent
          BY <1>0, <3>2 DEF TypeOK, Goals
        <4>2. comm[gh_] \in CommState /\ terminal[gh_] \in Terminal \union {"open"}
          BY <4>1 DEF TypeOK, GoalsInv
        <4>3. comm[gh_] = "DONE" => terminal[gh_] \in Terminal
          BY <4>1, <4>2 DEF GoalsInv
        <4>4. CASE comm[gh_] = "DONE"
          BY <3>2, <4>3, <4>4 DEF State, Waiting
        <4>5. CASE comm[gh_] # "DONE"
          BY <3>2, <4>2, <4>5 DEF State, Waiting, CommState, TypeOK, SimpleState,
                                  Terminal
        <4> QED  BY <4>4, <4>5
      <3> QED  BY <3>1, <3>2
    <2>4. reported' \in [Goals -> Terminal \union {"PENDING", "ACTIVE", "none"}]
      BY <1>3, <2>3 DEF CallDoneCallback, TypeOK
    <2>5. overlapped' \in BOOLEAN
      BY <1>3 DEF CallDoneCallback, TypeOK
    <2>6. UNCHANGED <<gh_, cur_simple_state_, done_cb_, comm, terminal, tracked,
                      active, sent, waits, changed, bug, mine>>
      BY <1>3 DEF CallDoneCallback
    <2>7. TypeOK'
      BY <2>1, <2>4, <2>5, <2>6 DEF TypeOK
    <2>8. GoalsInv'
      BY <1>0, <2>1, <2>2, <2>6 DEF GoalsInv
    <2> QED  BY <2>7, <2>8
  <1> QED
    BY <1>1, <1>2, <1>3

\* Every step keeps types and goals, whether or not the threads take turns.
LEMMA FreeStep == FreeInv /\ [Next]_vars => FreeInv'
  <1> SUFFICES ASSUME FreeInv, [Next]_vars PROVE FreeInv'
    OBVIOUS
  <1>1. CASE UNCHANGED vars
    BY <1>1 DEF vars, library, senders, FreeInv, TypeOK, GoalsInv, Begun
  <1>2. CASE Next
    BY <1>2, SendingKeepsFree, MainKeepsFree, SpinKeepsFree
       DEF Next, Main, Spin, Threads
  <1> QED  BY <1>1, <1>2

\* sendGoal resets the handle, and its goal is no longer tracked.
LEMMA ResetKeeps ==
  ASSUME Alone, FreeInv', ~overlapped', NEW t \in Threads, Reset(t)
  PROVE  Alone'
  <1> USE DEF Alone, FreeInv, NoBug, library, senders, SomeAt, At, AtOneOf, Begun,
              Sending, Threads
  <1>1. /\ pc' \in [Threads -> Places]
        /\ pc'[t] = "store"
        /\ \A u \in Threads : u # t => pc'[u] = pc[u]
    BY PcAfter DEF Reset, TypeOK, Places
  <1>3. SenderInv'
    BY <1>1 DEF Reset, MayTouchGoal, SenderInv
  <1>4. HandleInv'
    BY <1>1 DEF Reset, MayTouchGoal, TrackedAfterReset, HandleInv
  <1>5. CallbackInv'
    BY <1>1 DEF Reset, MayTouchGoal, MaySend, InCallback, CallbackInv
  <1>6. StateInv'
    BY <1>1 DEF Reset, MayTouchGoal, StateInv
  <1>7. ReportInv'
    BY <1>1 DEF Reset, MayTouchGoal, ReportInv
  <1>8. NoBug'
    BY DEF Reset, MayTouchGoal
  <1> QED
    BY <1>3, <1>4, <1>5, <1>6, <1>7, <1>8

\* sendGoal stores the new goal's callback.
LEMMA StoreKeeps ==
  ASSUME Alone, FreeInv', ~overlapped', NEW t \in Threads, StoreCallbacks(t)
  PROVE  Alone'
  <1> USE DEF Alone, FreeInv, NoBug, library, senders, SomeAt, At, AtOneOf, Begun,
              Sending, Threads
  <1>1. /\ pc' \in [Threads -> Places]
        /\ pc'[t] = "send"
        /\ \A u \in Threads : u # t => pc'[u] = pc[u]
    BY PcAfter DEF StoreCallbacks, TypeOK, Places
  <1>3. SenderInv'
    BY <1>1 DEF StoreCallbacks, StoredCallback, SenderInv
  <1>4. HandleInv'
    BY <1>1 DEF StoreCallbacks, StoredCallback, HandleInv
  <1>5. CallbackInv'
    BY <1>1 DEF StoreCallbacks, StoredCallback, CallbackInv, HandleInv
  <1>6. StateInv'
    BY <1>1 DEF StoreCallbacks, StoredCallback, StateInv
  <1>7. ReportInv'
    BY <1>1 DEF StoreCallbacks, StoredCallback, ReportInv
  <1>8. NoBug'
    BY DEF StoreCallbacks, StoredCallback
  <1> QED
    BY <1>3, <1>4, <1>5, <1>6, <1>7, <1>8

\* The new goal is sent to the server before the handle knows it.
LEMMA SendKeeps ==
  ASSUME Alone, FreeInv', ~overlapped', NEW t \in Threads, Send(t)
  PROVE  Alone'
  <1> USE DEF Alone, FreeInv, NoBug, library, senders, SomeAt, At, AtOneOf, Begun,
              Sending, Threads
  <1>1. /\ pc' \in [Threads -> Places]
        /\ pc'[t] = "assign"
        /\ \A u \in Threads : u # t => pc'[u] = pc[u]
    BY PcAfter DEF Send, TypeOK, Places
  <1>3. SenderInv'
    BY <1>1 DEF Send, SenderInv, TypeOK
  <1>4. HandleInv'
    BY <1>1 DEF Send, HandleInv, SenderInv, TypeOK
  <1>5. CallbackInv'
    BY <1>1 DEF Send, CallbackInv, HandleInv
  <1>6. StateInv'
    BY <1>1 DEF Send, StateInv, TypeOK
  <1>7. ReportInv'
    BY <1>1 DEF Send, ReportInv, SenderInv, TypeOK, Goals
  <1>8. NoBug'
    BY DEF Send, CallbackInv
  <1> QED
    BY <1>3, <1>4, <1>5, <1>6, <1>7, <1>8

\* The handle takes the new goal.
LEMMA AssignKeeps ==
  ASSUME Alone, FreeInv', ~overlapped', NEW t \in Threads, AssignHandle(t)
  PROVE  Alone'
  <1> USE DEF Alone, FreeInv, NoBug, library, senders, SomeAt, At, AtOneOf, Begun,
              Sending, Threads
  <1> DEFINE place == IF t = "spin" THEN "return"
                      ELSE IF waits THEN "wait" ELSE "idle"
  <1>0. GoTo(t, place) /\ place \in Places
    BY DEF AssignHandle, Places
  <1>1. /\ pc' \in [Threads -> Places]
        /\ pc'[t] = place
        /\ \A u \in Threads : u # t => pc'[u] = pc[u]
    <2> HIDE DEF place
    <2> QED
      BY <1>0, PcAfter DEF TypeOK
  <1>3. SenderInv'
    BY <1>1 DEF AssignHandle, SenderInv
  <1>4. HandleInv'
    BY <1>1 DEF AssignHandle, HandleInv, SenderInv, CallbackInv
  <1>5. CallbackInv'
    BY <1>1 DEF AssignHandle, CallbackInv, StateInv, SenderInv
  <1>6. StateInv'
    BY <1>1 DEF AssignHandle, StateInv
  <1>7. ReportInv'
    BY <1>1 DEF AssignHandle, ReportInv
  <1>8. NoBug'
    BY DEF AssignHandle, CallbackInv
  <1> QED
    BY <1>3, <1>4, <1>5, <1>6, <1>7, <1>8

\* The node's thread may begin to send when it is idle.
LEMMA MainSendsKeeps ==
  ASSUME Alone, FreeInv', ~overlapped', NEW wait \in BOOLEAN, MainSends(wait)
  PROVE  Alone'
  <1> USE DEF Alone, FreeInv, NoBug, library, senders, SomeAt, At, AtOneOf, Begun,
              Sending, Threads
  <1>1. /\ pc' \in [Threads -> Places]
        /\ pc'["main"] = "sendGoal"
        /\ \A u \in Threads : u # "main" => pc'[u] = pc[u]
    BY PcAfter DEF MainSends, TypeOK, Places
  <1>a. sent < MaxGoals /\ ~Sending("spin")
    BY DEF MainSends, GoalLeft, TypeOK
  <1>3. SenderInv'
    BY <1>1, <1>a DEF MainSends, SenderInv
  <1>4. HandleInv'
    BY <1>1 DEF MainSends, HandleInv
  <1>5. CallbackInv'
    BY <1>1 DEF MainSends, CallbackInv
  <1>6. StateInv'
    BY <1>1 DEF MainSends, StateInv
  <1>7. ReportInv'
    BY <1>1 DEF MainSends, ReportInv
  <1>8. NoBug'
    BY DEF MainSends, CallbackInv
  <1> QED
    BY <1>3, <1>4, <1>5, <1>6, <1>7, <1>8

\* Cancelling asks the server, and leaves handle and simple state.
LEMMA CancelKeeps ==
  ASSUME Alone, FreeInv', ~overlapped', CancelGoal
  PROVE  Alone'
  <1> USE DEF Alone, FreeInv, NoBug, library, senders, SomeAt, At, AtOneOf, Begun,
              Sending, Threads
  <1>1. /\ pc' \in [Threads -> Places]
        /\ pc'["main"] \in {"wait again", "idle"}
        /\ \A u \in Threads : u # "main" => pc'[u] = pc[u]
    <2>1. CASE GoTo("main", "wait again")
      BY <2>1, PcAfter DEF TypeOK, Places
    <2>2. CASE GoTo("main", "idle")
      BY <2>2, PcAfter DEF TypeOK, Places
    <2> QED
      BY <2>1, <2>2 DEF CancelGoal
  <1>a. /\ comm' \in [Goals -> CommState \union {"unsent"}]
        /\ \A g \in Goals :
             \/ comm'[g] = comm[g]
             \/ comm'[g] = "WAITING_FOR_CANCEL_ACK"
                /\ comm[g] \in {"WAITING_FOR_GOAL_ACK", "PENDING", "ACTIVE"}
    BY DEF CancelGoal, TypeOK, CommState
  <1>b. UNCHANGED <<gh_, cur_simple_state_, done_cb_, terminal, tracked, active,
                    sent,
                    reported, waits, changed, bug>>
    BY DEF CancelGoal
  <1>3. SenderInv'
    BY <1>1 DEF CancelGoal, MayTouchGoal, SenderInv
  <1>4. HandleInv'
    BY <1>1 DEF CancelGoal, MayTouchGoal, HandleInv
  <1>5. CallbackInv'
    BY <1>1 DEF CancelGoal, MayTouchGoal, CallbackInv
  <1>6. StateInv'
    <2>1. \A g \in active : g \in Goals
      BY ConstantsAssumption DEF TypeOK, Goals
    <2>2. cur_simple_state_ = "DONE" => sent \in Goals
      BY DEF StateInv, TypeOK, Goals
    <2>3. pc'["main"] # "send" /\ pc'["spin"] = pc["spin"]
      BY <1>1
    <2> QED
      BY <1>a, <1>b, <2>1, <2>2, <2>3 DEF StateInv
  <1>7. ReportInv'
    BY <1>1 DEF CancelGoal, MayTouchGoal, ReportInv, TypeOK
  <1>8. NoBug'
    BY DEF CancelGoal, MayTouchGoal
  <1> QED
    BY <1>3, <1>4, <1>5, <1>6, <1>7, <1>8

\* A client that stops tracking has no handle.
LEMMA StopTrackingKeeps ==
  ASSUME Alone, FreeInv', ~overlapped', StopTrackingGoal
  PROVE  Alone'
  <1> USE DEF Alone, FreeInv, NoBug, library, senders, SomeAt, At, AtOneOf, Begun,
              Sending, Threads
  <1>1. pc' = pc
    BY DEF StopTrackingGoal
  <1>3. SenderInv'
    BY <1>1 DEF StopTrackingGoal, MayTouchGoal, SenderInv
  <1>4. HandleInv'
    BY <1>1 DEF StopTrackingGoal, MayTouchGoal, HandleInv
  <1>5. CallbackInv'
    BY <1>1 DEF StopTrackingGoal, MayTouchGoal, MaySend, InCallback, CallbackInv
  <1>6. StateInv'
    BY <1>1 DEF StopTrackingGoal, MayTouchGoal, StateInv
  <1>7. ReportInv'
    BY <1>1 DEF StopTrackingGoal, MayTouchGoal, ReportInv
  <1>8. NoBug'
    BY DEF StopTrackingGoal, MayTouchGoal
  <1> QED
    BY <1>3, <1>4, <1>5, <1>6, <1>7, <1>8

\* A wait ends when the state is DONE.
LEMMA FinishedKeeps ==
  ASSUME Alone, FreeInv', ~overlapped', Finished
  PROVE  Alone'
  <1> USE DEF Alone, FreeInv, NoBug, library, senders, SomeAt, At, AtOneOf, Begun,
              Sending, Threads
  <1>1. /\ pc' \in [Threads -> Places]
        /\ pc'["main"] = "idle"
        /\ \A u \in Threads : u # "main" => pc'[u] = pc[u]
    BY PcAfter DEF Finished, TypeOK, Places
  <1>3. SenderInv'
    BY <1>1 DEF Finished, SenderInv
  <1>4. HandleInv'
    BY <1>1 DEF Finished, HandleInv
  <1>5. CallbackInv'
    BY <1>1 DEF Finished, CallbackInv
  <1>6. StateInv'
    BY <1>1 DEF Finished, StateInv
  <1>7. ReportInv'
    BY <1>1 DEF Finished, ReportInv
  <1>8. NoBug'
    BY DEF Finished, CallbackInv
  <1> QED
    BY <1>3, <1>4, <1>5, <1>6, <1>7, <1>8

\* A wait may end earlier.
LEMMA TimedOutKeeps ==
  ASSUME Alone, FreeInv', ~overlapped', TimedOut
  PROVE  Alone'
  <1> USE DEF Alone, FreeInv, NoBug, library, senders, SomeAt, At, AtOneOf, Begun,
              Sending, Threads
  <1>1. /\ pc' \in [Threads -> Places]
        /\ pc'["main"] \in {"cancel", "idle"}
        /\ \A u \in Threads : u # "main" => pc'[u] = pc[u]
    <2>1. CASE GoTo("main", "cancel")
      BY <2>1, PcAfter DEF TypeOK, Places
    <2>2. CASE GoTo("main", "idle")
      BY <2>2, PcAfter DEF TypeOK, Places
    <2> QED
      BY <2>1, <2>2 DEF TimedOut
  <1>3. SenderInv'
    BY <1>1 DEF TimedOut, SenderInv
  <1>4. HandleInv'
    BY <1>1 DEF TimedOut, HandleInv
  <1>5. CallbackInv'
    BY <1>1 DEF TimedOut, CallbackInv
  <1>6. StateInv'
    BY <1>1 DEF TimedOut, StateInv
  <1>7. ReportInv'
    BY <1>1 DEF TimedOut, ReportInv
  <1>8. NoBug'
    BY DEF TimedOut, CallbackInv
  <1> QED
    BY <1>3, <1>4, <1>5, <1>6, <1>7, <1>8

\* The library reports a transition of the goal that is tracked, and of no other.
LEMMA TransitionKeeps ==
  ASSUME Alone, FreeInv', ~overlapped', NEW g \in Goals, Transition(g)
  PROVE  Alone'
  <1> USE DEF Alone, FreeInv, NoBug, library, senders, SomeAt, At, AtOneOf, Begun,
              Sending, Threads
  <1>1. /\ pc' \in [Threads -> Places]
        /\ pc'["spin"] = "handle"
        /\ \A u \in Threads : u # "spin" => pc'[u] = pc[u]
    BY PcAfter DEF Transition, TypeOK, Places
  <1>a. g = sent /\ sent # 0 /\ comm[g] # "DONE"
        /\ changed' = g /\ g \in 1..sent
    BY DEF Transition, HandleInv, TypeOK
  <1>b. /\ comm' \in [Goals -> CommState \union {"unsent"}]
        /\ terminal' \in [Goals -> Terminal \union {"open"}]
        /\ \A h \in Goals : h # g => /\ comm'[h] = comm[h]
                                     /\ terminal'[h] = terminal[h]
        /\ \/ comm'[g] \in Successors(g) /\ terminal' = terminal
           \/ comm'[g] = "DONE" /\ terminal'[g] \in Terminal /\ active' = active
    BY DEF Transition, TypeOK, Successors, CommState, Outcomes, Terminal
  <1>c. /\ active' \in {active, active \union {g}}
        /\ g \in active' \/ comm'[g] \notin {"ACTIVE", "PREEMPTING"}
        /\ g \in active'
             => comm'[g] \notin {"WAITING_FOR_GOAL_ACK", "PENDING", "RECALLING"}
    <2>1. ASSUME NEW st \in Successors(g), comm' = [comm EXCEPT ![g] = st],
                 active' = IF st \in {"ACTIVE", "PREEMPTING"}
                           THEN active \union {g}
                           ELSE active
          PROVE  <1>c!1 /\ <1>c!2 /\ <1>c!3
      <3>1. comm'[g] = st
        BY <2>1 DEF TypeOK
      <3>2. g \in active
             => st \notin {"WAITING_FOR_GOAL_ACK", "PENDING", "RECALLING"}
        BY <2>1 DEF Successors, StateInv
      <3> QED
        BY <2>1, <3>1, <3>2
    <2>2. ASSUME comm' = [comm EXCEPT ![g] = "DONE"], active' = active
          PROVE  <1>c!1 /\ <1>c!2 /\ <1>c!3
      BY <2>2 DEF TypeOK
    <2> QED
      BY <2>1, <2>2 DEF Transition
  <1>d. UNCHANGED <<gh_, cur_simple_state_, done_cb_, tracked, sent,
                    reported, waits, bug>>
    BY DEF Transition
  <1>3. SenderInv'
    BY <1>1 DEF Transition, SenderInv
  <1>4. HandleInv'
    BY <1>1 DEF Transition, HandleInv
  <1>5. CallbackInv'
    BY <1>1 DEF Transition, CallbackInv, StateInv, HandleInv
  <1>6. StateInv'
    <2>1. cur_simple_state_ # "DONE"
      BY <1>a DEF StateInv
    <2>2. pc'["main"] = pc["main"] /\ pc'["spin"] # "send"
      BY <1>1
    <2>3. \A h \in active : h \in Goals
      BY ConstantsAssumption DEF TypeOK, Goals
    <2> QED
      BY <1>a, <1>b, <1>c, <1>d, <2>1, <2>2, <2>3 DEF StateInv
  <1>7. ReportInv'
    <2>1. pc'["main"] = pc["main"] /\ pc'["spin"] = "handle"
          /\ pc["spin"] = "idle"
      BY <1>1 DEF Transition
    <2>2. terminal[g] = "open" /\ "DONE" \notin Successors(g)
          /\ "open" \notin Terminal
      BY <1>a DEF ReportInv, Successors, Terminal
    <2>3. \A h \in Goals : h > sent => h # g
      BY <1>a DEF Goals
    <2> QED
      BY <1>a, <1>b, <1>d, <2>1, <2>2, <2>3 DEF ReportInv
  <1>8. NoBug'
    BY DEF Transition, CallbackInv
  <1> QED
    BY <1>3, <1>4, <1>5, <1>6, <1>7, <1>8

\* A terminal transition makes the state DONE, once.
LEMMA HandleDoneKeeps ==
  ASSUME Alone, FreeInv', ~overlapped', HandleDone
  PROVE  Alone'
  <1> USE DEF Alone, FreeInv, NoBug, library, senders, SomeAt, At, AtOneOf, Begun,
              Sending, Threads
  <1>0. /\ cur_simple_state_' = "DONE"
        /\ GoTo("spin", "callback")
        /\ UNCHANGED <<changed, bug>>
    BY DEF HandleDone, Unfinished, CallbackInv, TypeOK, SimpleState
  <1>1. /\ pc' \in [Threads -> Places]
        /\ pc'["spin"] = "callback"
        /\ \A u \in Threads : u # "spin" => pc'[u] = pc[u]
    BY <1>0, PcAfter DEF TypeOK, Places
  <1>3. SenderInv'
    BY <1>0, <1>1 DEF HandleDone, SenderInv
  <1>4. HandleInv'
    BY <1>0, <1>1 DEF HandleDone, HandleInv
  <1>5. CallbackInv'
    BY <1>0, <1>1 DEF HandleDone, CallbackInv
  <1>6. StateInv'
    BY <1>0, <1>1 DEF HandleDone, StateInv, CallbackInv, HandleInv
  <1>7. ReportInv'
    BY <1>0, <1>1 DEF HandleDone, ReportInv
  <1>8. NoBug'
    BY <1>0 DEF HandleDone
  <1> QED
    BY <1>3, <1>4, <1>5, <1>6, <1>7, <1>8

\* Any other transition leaves it as it was, or makes it ACTIVE.
LEMMA HandleOtherKeeps ==
  ASSUME Alone, FreeInv', ~overlapped', HandleOther
  PROVE  Alone'
  <1> USE DEF Alone, FreeInv, NoBug, library, senders, SomeAt, At, AtOneOf, Begun,
              Sending, Threads
  <1>1. /\ pc' \in [Threads -> Places]
        /\ pc'["spin"] = "idle"
        /\ \A u \in Threads : u # "spin" => pc'[u] = pc[u]
    BY PcAfter DEF HandleOther, TypeOK, Places
  <1>3. SenderInv'
    BY <1>1 DEF HandleOther, NextSimpleState, SenderInv
  <1>4. HandleInv'
    BY <1>1 DEF HandleOther, NextSimpleState, HandleInv
  <1>5. CallbackInv'
    BY <1>1 DEF HandleOther, CallbackInv
  <1>6. StateInv'
    BY <1>1 DEF HandleOther, NextSimpleState, StateInv, CallbackInv, HandleInv,
                TypeOK, Goals
  <1>7. ReportInv'
    BY <1>1 DEF HandleOther, NextSimpleState, ReportInv
  <1>8. NoBug'
    BY DEF HandleOther, NextSimpleState, Unexpected, CallbackInv, StateInv
  <1> QED
    BY <1>3, <1>4, <1>5, <1>6, <1>7, <1>8

\* The done callback is called outside of the lock, and may send a goal.
LEMMA CallbackKeeps ==
  ASSUME Alone, FreeInv', ~overlapped', CallDoneCallback
  PROVE  Alone'
  <1> USE DEF Alone, FreeInv, NoBug, library, senders, SomeAt, At, AtOneOf, Begun,
              Sending, Threads
  <1>1. /\ pc' \in [Threads -> Places]
        /\ pc'["spin"] \in {"return", "sendGoal"}
        /\ \A u \in Threads : u # "spin" => pc'[u] = pc[u]
    <2>1. CASE GoTo("spin", "return")
      BY <2>1, PcAfter DEF TypeOK, Places
    <2>2. CASE GoTo("spin", "sendGoal")
      BY <2>2, PcAfter DEF TypeOK, Places
    <2> QED
      BY <2>1, <2>2 DEF CallDoneCallback
  <1>a. pc'["spin"] = "sendGoal" => sent < MaxGoals /\ ~Sending("main")
    <2>1. CASE GoTo("spin", "return")
      BY <2>1, PcAfter DEF TypeOK, Places
    <2>2. CASE GoalLeft("main") /\ overlapped' = (overlapped \/ Sending("main"))
      BY <2>2 DEF GoalLeft, TypeOK
    <2> QED
      BY <2>1, <2>2 DEF CallDoneCallback
  <1>b. done_cb_ # 0 => done_cb_ = sent /\ sent \in Goals
    BY DEF ReportInv, HandleInv, CallbackInv, CallDoneCallback, TypeOK, Goals
  <1>c. done_cb_ # 0 => State \in Terminal
    BY <1>b DEF State, HandleInv, CallDoneCallback, CallbackInv, StateInv,
                ReportInv, TypeOK, Terminal
  <1>3. SenderInv'
    BY <1>1, <1>a DEF CallDoneCallback, SenderInv
  <1>4. HandleInv'
    BY <1>1 DEF CallDoneCallback, HandleInv
  <1>5. CallbackInv'
    BY <1>1 DEF CallDoneCallback, CallbackInv
  <1>6. StateInv'
    BY <1>1 DEF CallDoneCallback, StateInv
  <1>7. ReportInv'
    BY <1>1 DEF CallDoneCallback, ReportInv, StateInv, CallbackInv, TypeOK
  <1>8. NoBug'
    BY DEF CallDoneCallback, CallbackInv
  <1> QED
    BY <1>3, <1>4, <1>5, <1>6, <1>7, <1>8

\* When the callback has returned, the spin thread is idle again.
LEMMA ReturnKeeps ==
  ASSUME Alone, FreeInv', ~overlapped', Return
  PROVE  Alone'
  <1> USE DEF Alone, FreeInv, NoBug, library, senders, SomeAt, At, AtOneOf, Begun,
              Sending, Threads
  <1>1. /\ pc' \in [Threads -> Places]
        /\ pc'["spin"] = "idle"
        /\ \A u \in Threads : u # "spin" => pc'[u] = pc[u]
    BY PcAfter DEF Return, TypeOK, Places
  <1>3. SenderInv'
    BY <1>1 DEF Return, AfterCallback, SenderInv
  <1>4. HandleInv'
    BY <1>1 DEF Return, AfterCallback, HandleInv
  <1>5. CallbackInv'
    BY <1>1 DEF Return, CallbackInv
  <1>6. StateInv'
    BY <1>1 DEF Return, AfterCallback, StateInv
  <1>7. ReportInv'
    BY <1>1 DEF Return, AfterCallback, ReportInv
  <1>8. NoBug'
    BY DEF Return, AfterCallback
  <1> QED
    BY <1>3, <1>4, <1>5, <1>6, <1>7, <1>8

\* What changes nothing keeps the invariant.
LEMMA StutterKeeps ==
  ASSUME Alone, FreeInv', ~overlapped', UNCHANGED vars
  PROVE  Alone'
  <1> USE DEF vars, library, senders, SomeAt, At, AtOneOf, Begun, Sending
  <1>1. NoBug'
    BY DEF Alone, NoBug
  <1>2. SenderInv' /\ HandleInv' /\ CallbackInv'
    BY DEF Alone, SenderInv, HandleInv, CallbackInv
  <1>3. StateInv' /\ ReportInv'
    BY DEF Alone, StateInv, ReportInv
  <1> QED
    BY <1>1, <1>2, <1>3 DEF Alone

\* Every step after which no two threads have sent at the same time keeps what
\* holds as long as the threads take turns.
LEMMA AloneStep == Alone /\ [Next]_vars /\ ~overlapped' => Alone'
  <1> SUFFICES ASSUME Alone, [Next]_vars, ~overlapped' PROVE Alone'
    OBVIOUS
  <1>0. FreeInv'
    BY FreeStep DEF Alone
  <1>1. CASE Main
    BY <1>0, <1>1, ResetKeeps, StoreKeeps, SendKeeps, AssignKeeps, CancelKeeps,
       FinishedKeeps DEF Main, Threads
  <1>2. CASE Spin
    BY <1>0, <1>2, TransitionKeeps, HandleDoneKeeps, HandleOtherKeeps,
       CallbackKeeps, ResetKeeps, StoreKeeps, SendKeeps, AssignKeeps, ReturnKeeps
       DEF Spin, Threads
  <1> QED
    BY <1>0, <1>1, <1>2, MainSendsKeeps, CancelKeeps, StopTrackingKeeps,
       TimedOutKeeps, StutterKeeps DEF Next

\* That two threads have sent at the same time is not forgotten.
LEMMA OverlapStays == overlapped /\ [Next]_vars => overlapped'
  <1> SUFFICES ASSUME overlapped, Next PROVE overlapped'
    BY DEF vars, senders
  <1> QED
    BY DEF Next, Main, Spin, MainSends, CancelGoal, StopTrackingGoal, TimedOut,
           Finished, Reset, StoreCallbacks, Send, AssignHandle, Transition,
           HandleDone, HandleOther, CallDoneCallback, Return, senders

\* The inductive invariant.
IInv == FreeInv /\ (~overlapped => Alone)

\* Every step keeps it.
LEMMA StepKeeps == IInv /\ [Next]_vars => IInv'
  BY FreeStep, AloneStep, OverlapStays DEF IInv

\* It always holds.
LEMMA InvariantHolds == Spec => []IInv
  <1>1. Init => IInv
    BY InitEstablishes DEF IInv
  <1> QED
    BY <1>1, StepKeeps, PTL DEF Spec

\* The handle, the callbacks and what the communication layer tracks are those
\* of goals that were sent, whichever thread sent them, and whether or not
\* another sent at the same time.
THEOREM TypeCorrect == Spec => []TypeOK
  <1>1. IInv => TypeOK
    BY DEF IInv, FreeInv
  <1> QED
    BY <1>1, InvariantHolds, PTL

\* A client that says DONE has no goal that still runs, for any number of goals,
\* callbacks that send the next one included, as long as no two threads have sent
\* at the same time.
THEOREM DoneIsDone == Spec => []DoneMeansDone
  <1>1. IInv => DoneMeansDone
    BY DEF IInv, Alone, StateInv, DoneMeansDone
  <1> QED
    BY <1>1, InvariantHolds, PTL

\* No error that calls itself a bug is logged, as long as no two threads have
\* sent at the same time.
THEOREM NoBugLogged == Spec => []NoBug
  <1>1. IInv => NoBug
    BY DEF IInv, Alone, NoBug
  <1> QED
    BY <1>1, InvariantHolds, PTL

-----------------------------------------------------------------------------
(* What a caller that waits gets.                                          *)

\* sendGoalAndWait stores no callback, so that nobody sends the next goal while
\* it waits, and the handle stays that of its own.
WaitInv ==
  /\ AtOneOf("main", {"wait", "cancel", "wait again"}) => gh_ = sent /\ sent # 0 /\ waits
  /\ waits /\ AtOneOf("main", {"send", "assign", "wait", "cancel", "wait again"})
       => done_cb_ = 0 /\ ~Sending("spin")

\* While one thread sends a goal, a caller that waits keeps its own.
LEMMA WaitInvSending ==
  ASSUME Alone, WaitInv, NEW t \in Threads,
         Reset(t) \/ StoreCallbacks(t) \/ Send(t) \/ AssignHandle(t)
  PROVE  WaitInv'
  <1> USE DEF Alone, FreeInv, AtOneOf, At, Sending, Begun, Threads, SomeAt, senders
  <1>0. pc \in [Threads -> Places] /\ ~(Sending("main") /\ Sending("spin"))
    BY DEF TypeOK, SenderInv
  <1>1. CASE Reset(t)
    <2>1. /\ pc' = [pc EXCEPT ![t] = "store"] /\ pc[t] = "sendGoal"
          /\ UNCHANGED <<sent, waits, done_cb_>>
      BY <1>1 DEF Reset, GoTo
    <2> QED  BY <1>0, <2>1 DEF WaitInv
  <1>2. CASE StoreCallbacks(t)
    <2>1. /\ pc' = [pc EXCEPT ![t] = "send"] /\ pc[t] = "store"
          /\ done_cb_' = StoredCallback(t) /\ UNCHANGED <<gh_, sent, waits>>
      BY <1>2 DEF StoreCallbacks, GoTo, library
    <2>2. CASE t = "main"  BY <1>0, <2>1, <2>2 DEF WaitInv, StoredCallback
    <2>3. CASE t = "spin"  BY <1>0, <2>1, <2>3 DEF WaitInv
    <2> QED  BY <2>2, <2>3
  <1>3. CASE Send(t)
    <2>1. /\ pc' = [pc EXCEPT ![t] = "assign"] /\ pc[t] = "send"
          /\ UNCHANGED <<gh_, waits, done_cb_>>
      BY <1>3 DEF Send, GoTo
    <2> QED  BY <1>0, <2>1 DEF WaitInv
  <1>4. CASE AssignHandle(t)
    <2>1. /\ pc' = [pc EXCEPT ![t] = IF t = "spin" THEN "return" ELSE IF waits THEN "wait" ELSE "idle"]
          /\ pc[t] = "assign" /\ gh_' = sent
          /\ UNCHANGED <<sent, waits, done_cb_>>
      BY <1>4 DEF AssignHandle, GoTo, SenderInv
    <2>2. sent # 0  BY <2>1 DEF SenderInv
    <2> QED  BY <1>0, <2>1, <2>2 DEF WaitInv
  <1> QED  BY <1>1, <1>2, <1>3, <1>4

\* Every step keeps what a waiter relies on.
LEMMA WaitInvStep ==
  Alone /\ WaitInv /\ [Next]_vars /\ ~overlapped' => WaitInv'
  <1> SUFFICES ASSUME Alone, WaitInv, [Next]_vars, ~overlapped' PROVE WaitInv'
    OBVIOUS
  <1> USE DEF AtOneOf, At, Sending, Begun, senders
  <1>0. pc \in [Threads -> Places] /\ "main" \in Threads /\ "spin" \in Threads
    BY DEF Alone, FreeInv, TypeOK, Threads
  <1>1. ASSUME NEW wait \in BOOLEAN, MainSends(wait) PROVE WaitInv'
    BY <1>0, <1>1 DEF MainSends, GoTo, WaitInv
  <1>2. CASE CancelGoal
    <2>1. pc["main"] \in {"idle", "cancel"}
          /\ pc' = [pc EXCEPT !["main"] = IF pc["main"] = "cancel" THEN "wait again" ELSE "idle"]
          /\ UNCHANGED <<gh_, sent, waits, done_cb_>>
      BY <1>2 DEF CancelGoal, GoTo
    <2>2. pc'["main"] = "wait again" => pc["main"] = "cancel"
      BY <1>0, <2>1
    <2> QED  BY <1>0, <2>1, <2>2 DEF WaitInv
  <1>3. CASE StopTrackingGoal
    BY <1>3 DEF StopTrackingGoal, WaitInv
  <1>4. CASE Finished
    BY <1>0, <1>4 DEF Finished, GoTo, WaitInv
  <1>5. CASE TimedOut
    <2>1. UNCHANGED <<gh_, sent, done_cb_>>  BY <1>5 DEF TimedOut, library
    <2>2. CASE pc["main"] = "wait" /\ pc' = [pc EXCEPT !["main"] = "cancel"] /\ waits' = waits
      BY <1>0, <2>1, <2>2 DEF WaitInv
    <2>3. CASE pc' = [pc EXCEPT !["main"] = "idle"]
      BY <1>0, <2>1, <2>3 DEF WaitInv
    <2> QED  BY <1>5, <2>2, <2>3 DEF TimedOut, GoTo
  <1>6. ASSUME NEW t \in Threads,
               Reset(t) \/ StoreCallbacks(t) \/ Send(t) \/ AssignHandle(t)
        PROVE  WaitInv'
    BY <1>6, WaitInvSending
  <1>7. ASSUME NEW g \in Goals, Transition(g) PROVE WaitInv'
    BY <1>0, <1>7 DEF Transition, GoTo, WaitInv
  <1>8. CASE HandleDone
    <2>1. pc' \in {[pc EXCEPT !["spin"] = "callback"], [pc EXCEPT !["spin"] = "idle"]}
      BY <1>8 DEF HandleDone, GoTo
    <2> QED  BY <1>0, <1>8, <2>1 DEF HandleDone, WaitInv, library
  <1>9. CASE HandleOther
    BY <1>0, <1>9 DEF HandleOther, GoTo, WaitInv, library
  <1>10. CASE CallDoneCallback
    <2>1. /\ pc' \in {[pc EXCEPT !["spin"] = "return"], [pc EXCEPT !["spin"] = "sendGoal"]}
          /\ done_cb_ = 0 => pc' = [pc EXCEPT !["spin"] = "return"]
          /\ pc' = [pc EXCEPT !["spin"] = "return"] \/ ~Sending("main")
      BY <1>10 DEF CallDoneCallback, GoTo
    <2> QED  BY <1>0, <1>10, <2>1 DEF CallDoneCallback, WaitInv, library
  <1>11. CASE Return
    BY <1>0, <1>11 DEF Return, GoTo, WaitInv, library
  <1>12. CASE UNCHANGED vars
    BY <1>12 DEF vars, library, WaitInv
  <1> QED
    BY <1>0, <1>1, <1>2, <1>3, <1>4, <1>5, <1>6, <1>7, <1>8, <1>9, <1>10, <1>11, <1>12
       DEF Next, Main, Spin

\* A number that is not zero is that of a goal.
LEMMA GoalOfNumber == ASSUME NEW n \in 0..MaxGoals, n # 0 PROVE n \in Goals
  BY ConstantsAssumption DEF Goals

\* A caller of sendGoalAndWait gets the state that its own goal ended with, for any
\* number of goals, and wherever the other thread is, as long as no two threads
\* have sent at the same time.
THEOREM WaiterGetsOutcome == Spec => []WaitReturnsOutcome
  <1> DEFINE Waits == ~overlapped => WaitInv
  <1>1. Init => Waits
    BY DEF Init, WaitInv, AtOneOf, Threads
  <1>2. IInv /\ Waits => WaitReturnsOutcome
    <2> SUFFICES ASSUME Alone, WaitInv, pc["main"] \in {"wait", "wait again"},
                        cur_simple_state_ = "DONE"
                 PROVE  State = terminal[sent] /\ State \in Terminal
      BY DEF WaitReturnsOutcome, IInv
    <2>1. gh_ = sent /\ gh_ # 0 /\ comm[sent] = "DONE"
      BY DEF WaitInv, AtOneOf, Alone, StateInv
    <2>2. State = terminal[sent]
      BY <2>1 DEF State, Waiting
    <2>3. terminal[sent] \in Terminal
      <3>1. sent \in Goals
        BY <2>1, GoalOfNumber DEF Alone, FreeInv, TypeOK
      <3>2. terminal[sent] # "open"  BY <2>1, <3>1 DEF Alone, ReportInv
      <3> QED  BY <3>1, <3>2 DEF Alone, FreeInv, TypeOK
    <2> QED  BY <2>2, <2>3
  <1>3. IInv /\ Waits /\ [Next]_vars => Waits'
    BY WaitInvStep, OverlapStays DEF IInv
  <1> QED
    BY <1>1, <1>2, <1>3, InvariantHolds, PTL DEF Spec

-----------------------------------------------------------------------------
(* The client implements ActionGoals.                                      *)

\* The client's initial states are those of the promise.
LEMMA PromiseInit == Init => Promise!Init
  BY DEF Init, Promise!Init, Goals, Promise!Goals

\* Sending to the server is sending in the promise.
LEMMA PromiseSend ==
  ASSUME Alone, NEW t \in Threads, Send(t)
  PROVE  Promise!Send
  <1>1. sent < MaxGoals
    BY DEF Alone, SenderInv, SomeAt, Send, Threads
  <1> QED
    BY <1>1 DEF Send, Promise!Send

\* A transition ends the promise's goal, or is not seen there.
LEMMA PromiseEnd ==
  ASSUME Alone, NEW g \in Goals, Transition(g)
  PROVE  \/ \E s \in Promise!Terminal : Promise!End(s)
         \/ UNCHANGED <<sent, terminal, reported>>
  <1>1. g = sent /\ sent # 0 /\ terminal[g] = "open"
    BY DEF Alone, HandleInv, ReportInv, Transition
  <1>2. CASE UNCHANGED terminal
    BY <1>2 DEF Transition
  <1>3. ASSUME NEW s \in Outcomes(g), terminal' = [terminal EXCEPT ![g] = s]
        PROVE  \E st \in Promise!Terminal : Promise!End(st)
    <2>1. s \in Promise!Terminal
      BY DEF Outcomes, Terminal, Promise!Terminal
    <2>2. Promise!End(s)
      BY <1>1, <1>3 DEF Promise!End, Transition
    <2> QED
      BY <2>1, <2>2
  <1> QED
    BY <1>2, <1>3 DEF Transition

\* A callback reports the goal that ended, once, or there is none to call.
LEMMA PromiseReport ==
  ASSUME Alone, CallDoneCallback
  PROVE  Promise!Report \/ UNCHANGED <<sent, terminal, reported>>
  <1>1. CASE done_cb_ = 0
    BY <1>1 DEF CallDoneCallback, library
  <1>2. CASE done_cb_ # 0
    <2>1. At("spin", "callback") /\ ~SomeAt("send")
      BY DEF Alone, CallDoneCallback, HandleInv, CallbackInv, SomeAt, At, AtOneOf
    <2>2. done_cb_ = sent /\ sent # 0 /\ sent \in Goals
      BY <1>2, <2>1 DEF Alone, FreeInv, ReportInv, TypeOK, Goals
    <2>3. comm[sent] = "DONE" /\ terminal[sent] # "open"
          /\ reported[sent] = "none"
      BY <2>1, <2>2 DEF Alone, ReportInv, StateInv, CallbackInv, At, AtOneOf
    <2>4. State \in {terminal[sent], "LOST"}
      <3>1. gh_ \in {0, sent}
        BY DEF Alone, HandleInv
      <3>2. CASE gh_ = 0
        BY <2>2, <3>2 DEF State
      <3>3. CASE gh_ = sent
        BY <2>2, <2>3, <3>3 DEF State, Waiting
      <3> QED
        BY <3>1, <3>2, <3>3
    <2>5. /\ reported' = [reported EXCEPT ![sent] = State]
          /\ UNCHANGED <<sent, terminal>>
      BY <1>2, <2>2 DEF CallDoneCallback, library
    <2> QED
      BY <2>2, <2>3, <2>4, <2>5 DEF Promise!Report
  <1> QED
    BY <1>1, <1>2

\* Every other step is not seen in the promise.
LEMMA PromiseStep ==
  Alone /\ [Next]_vars => [Promise!Next]_<<sent, terminal, reported>>
  <1> SUFFICES ASSUME Alone, [Next]_vars
               PROVE  Promise!Next \/ UNCHANGED <<sent, terminal, reported>>
    OBVIOUS
  <1> DEFINE Stutter == UNCHANGED <<sent, terminal, reported>>
  <1>1. ASSUME NEW t \in Threads,
               Reset(t) \/ StoreCallbacks(t) \/ AssignHandle(t)
        PROVE  Stutter
    BY <1>1 DEF Reset, StoreCallbacks, AssignHandle, library
  <1>2. ASSUME NEW t \in Threads, Send(t) PROVE Promise!Next
    BY <1>2, PromiseSend DEF Promise!Next
  <1>3. CASE CancelGoal \/ StopTrackingGoal \/ Finished \/ TimedOut
    BY <1>3 DEF CancelGoal, StopTrackingGoal, Finished, TimedOut, library
  <1>4. ASSUME NEW wait \in BOOLEAN, MainSends(wait) PROVE Stutter
    BY <1>4 DEF MainSends, library
  <1>5. ASSUME NEW g \in Goals, Transition(g) PROVE Promise!Next \/ Stutter
    BY <1>5, PromiseEnd DEF Promise!Next
  <1>6. CASE HandleDone \/ HandleOther \/ Return
    BY <1>6 DEF HandleDone, HandleOther, Return, library
  <1>7. CASE CallDoneCallback
    BY <1>7, PromiseReport DEF Promise!Next
  <1>8. CASE UNCHANGED vars
    BY <1>8 DEF vars, library
  <1> QED
    BY <1>1, <1>2, <1>3, <1>4, <1>5, <1>6, <1>7, <1>8 DEF Next, Main, Spin,
       Threads

\* The client implements ActionGoals: each goal ends once and is reported once,
\* as what it was or as lost, and never after the next has taken its place, up to
\* the step with which two threads are sending at the same time.
THEOREM Implements == Spec => OneReport
  <1>1. IInv /\ [Next]_vars
          => [Promise!Next \/ overlapped']_<<sent, terminal, reported>>
    BY PromiseStep, OverlapStays DEF IInv
  <1> QED
    BY <1>1, PromiseInit, InvariantHolds, PTL DEF Spec, OneReport

=============================================================================
