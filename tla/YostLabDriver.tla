---------------------------- MODULE YostLabDriver ----------------------------
(***************************************************************************)
(* The IMU driver (igvc_platform/src/imu): it asks the IMU for its         *)
(* settings, starts the stream and takes it apart line by line.            *)
(*                                                                         *)
(* A message of the stream is 14 values on five lines of 4, 3, 3, 3 and 1. *)
(* A value is three characters here: two halves of its digits, and the     *)
(* comma or end of line behind it.  A position counts characters from the  *)
(* beginning of a message, so that everything about a character follows    *)
(* from its position.                                                      *)
(***************************************************************************)
EXTENDS Integers, Sequences

CONSTANTS
  MaxMessages,                 \* bound: messages in the stream
  MaxTorn                      \* bound: reads that time out inside a line

ASSUME StreamAssumption == MaxMessages \in Nat /\ MaxTorn \in Nat

Values == 14
LineEnds == {4, 7, 10, 13, 14}
MessageLength == 3 * Values

MessageOf(p) == p \div MessageLength
ValueOf(p) == ((p % MessageLength) \div 3) + 1
FirstHalf(p) == p % 3 = 0
Separator(p) == p % 3 = 2

\* readline returns a line with its end or, when it times out, what is there.
LineEnd(p) ==
  LET last == CHOOSE v \in LineEnds : v >= ValueOf(p) /\ \A w \in LineEnds : w >= ValueOf(p) => v <= w
  IN  MessageOf(p) * MessageLength + 3 * last - 1

Value(msg, v, whole) == [msg |-> msg, val |-> v, whole |-> whole]
WholeMessage(msg) == [v \in 1..Values |-> Value(msg, v, TRUE)]

\* Whatever memory holds behind the end of parsed_val: a value of an earlier
\* message, or nothing that was ever a value.
OldMemory == Value(0, 0, FALSE)

\* The 14 fields are read from fixed places of the vector, whether it is that
\* long or not; values beyond are not used.
createAndPublishIMUMessage(vals) ==
  [v \in 1..Values |-> IF v <= Len(vals) THEN vals[v] ELSE OldMemory]

\* The values that addToParsedVals finds in the characters from..to: none if
\* a comma comes first.  Half of a value at the end may be a number or not (a
\* sign without digits): parses says which.
Terms(from, to, parses) ==
  LET last == IF FirstHalf(to) /\ ~parses THEN ValueOf(to) - 1 ELSE ValueOf(to)
      n == last - ValueOf(from) + 1
  IN  IF Separator(from) THEN <<>>
      ELSE [i \in 1..n |->
             LET v == ValueOf(from) + i - 1
             IN  Value(MessageOf(from), v, /\ (i = 1 => FirstHalf(from))
                                           /\ (v = ValueOf(to) => ~FirstHalf(to)))]

\* setAndCheckIMUSettings asks for the version, which is no number, and four
\* settings, which are.
Queries == <<"version", "axis", "euler", "calib", "mi">>

VARIABLES
  query,                       \* settings asked for; one more: streaming
  unanswered,                  \* answers that came after their read timed out
  pos,                         \* the next character of the stream
  line_num_, parsed_val,
  published,                   \* the fields last published, <<>> if none
  torn,                        \* reads that have timed out inside a line
  wholeFrom                    \* every read since this position was of whole lines

imuVars == <<query, unanswered, pos, line_num_, parsed_val, published, torn, wholeFrom>>

ImuTypeOK ==
  /\ query \in 1..(Len(Queries) + 2)
  /\ unanswered \in Seq({Queries[i] : i \in DOMAIN Queries})
  /\ pos \in Nat /\ wholeFrom \in Nat /\ torn \in 0..MaxTorn
  /\ line_num_ \in Nat
  /\ parsed_val \in Seq([msg : Nat, val : 1..Values, whole : BOOLEAN])
  /\ published \in Seq([msg : Nat, val : 0..Values, whole : BOOLEAN])

ImuInit ==
  /\ query = 1 /\ unanswered = <<>>
  /\ pos = 0 /\ wholeFrom = 0 /\ torn = 0
  /\ line_num_ = 0 /\ parsed_val = <<>> /\ published = <<>>

\* flush, the question, and a read: the answer is there in time, an older
\* one is read in its place, or the read times out.  The serial library, which
\* is external, may or may not drop what has arrived when it flushes.
GetSetting ==
  /\ query <= Len(Queries)
  /\ \E flushed \in {<<>>, unanswered}, timeout \in BOOLEAN :
       LET answers == Append(flushed, Queries[query])
       IN  unanswered' = IF timeout THEN answers ELSE Tail(answers)
  /\ query' = query + 1
  /\ UNCHANGED <<pos, line_num_, parsed_val, published, torn, wholeFrom>>

\* flush and START_STREAMING.  An IMU that streams already is in the middle of
\* a message, and the flush ends at any character of it.
StartStreaming ==
  /\ query = Len(Queries) + 1
  /\ query' = query + 1
  /\ unanswered' \in {<<>>, unanswered}
  /\ pos' \in 0..(MessageLength - 1)
  /\ wholeFrom' = pos'
  /\ UNCHANGED <<line_num_, parsed_val, published, torn>>

\* Variant: the values of a message that is thrown away are kept.
TakeLine_ClearsIfPublished(terms) ==
  LET all == parsed_val \o terms
      complete == line_num_ + 1 = 5
  IN  IF Len(terms) = 1
      THEN /\ published' = IF complete THEN createAndPublishIMUMessage(all) ELSE published
           /\ parsed_val' = IF complete THEN <<>> ELSE all
           /\ line_num_' = 0
      ELSE /\ parsed_val' = all /\ line_num_' = line_num_ + 1
           /\ UNCHANGED published

\* Variant: the lines of a message that is thrown away are counted for the next.
TakeLine_CountsOn(terms) ==
  LET all == parsed_val \o terms
      complete == line_num_ + 1 = 5
  IN  IF Len(terms) = 1
      THEN /\ published' = IF complete THEN createAndPublishIMUMessage(all) ELSE published
           /\ parsed_val' = <<>> /\ line_num_' = IF complete THEN 0 ELSE line_num_ + 1
      ELSE /\ parsed_val' = all /\ line_num_' = line_num_ + 1
           /\ UNCHANGED published

\* The body of run's inner loop, for a line that holds these values.
TakeLine(terms) ==
  LET all == parsed_val \o terms
      complete == line_num_ + 1 = 5
  IN  IF Len(terms) = 1
      THEN /\ published' = IF complete THEN createAndPublishIMUMessage(all) ELSE published
           /\ parsed_val' = <<>> /\ line_num_' = 0
      ELSE /\ parsed_val' = all /\ line_num_' = line_num_ + 1
           /\ UNCHANGED published

ReadLateAnswer ==
  /\ query = Len(Queries) + 2 /\ unanswered # <<>>
  /\ TakeLine(IF unanswered[1] = "version" THEN <<>> ELSE <<Value(0, 1, FALSE)>>)
  /\ unanswered' = Tail(unanswered)
  /\ UNCHANGED <<query, pos, torn, wholeFrom>>

ReadLine ==
  /\ query = Len(Queries) + 2 /\ unanswered = <<>>
  /\ pos < MaxMessages * MessageLength
  /\ \E to \in pos..LineEnd(pos), parses \in BOOLEAN :
       /\ to < LineEnd(pos) => torn < MaxTorn
       /\ TakeLine(Terms(pos, to, parses))
       /\ pos' = to + 1
       /\ torn' = IF to < LineEnd(pos) THEN torn + 1 ELSE torn
       /\ wholeFrom' = IF to < LineEnd(pos) THEN to + 1 ELSE wholeFrom
  /\ UNCHANGED <<query, unanswered>>

ImuNext == GetSetting \/ StartStreaming \/ ReadLateAnswer \/ ReadLine
ImuSpec == ImuInit /\ [][ImuNext]_imuVars

-----------------------------------------------------------------------------
(* Properties.                                                             *)

\* What is published is from one message, in its order, and what is missing is
\* missing at the end: every message ends with a piece that holds one value,
\* however its lines are torn, and so parsed_val is never carried over into the
\* next one.  Fields behind its end hold what memory held: that a message has five
\* lines does not verify that it is complete, as YostLabDriver.cpp:208 has it.
InOrder(fields) ==
  \A i, j \in DOMAIN fields :
    i < j /\ fields[j] # OldMemory =>
      /\ fields[i] # OldMemory
      /\ fields[i].msg = fields[j].msg /\ fields[i].val <= fields[j].val
PublishedFromOneMessage == InOrder(published)

\* The driver finds back into step: once the last line of a message has been
\* read whole, and the five lines of the next one, that one is published.
WholeMessagesArePublished ==
  (pos % MessageLength = 0 /\ pos >= wholeFrom + MessageLength + 3) =>
    published = WholeMessage(MessageOf(pos) - 1)
=============================================================================
