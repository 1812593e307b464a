---------------------------- MODULE ParserProofs ----------------------------
(***************************************************************************)
(* Proofs about Parser for every set of message types and every file: it   *)
(* reads no field outside the frame it belongs to, its counters explain    *)
(* every byte it went past, and of a framed feed the engine hears of every *)
(* message that is due.                                                    *)
(*                                                                         *)
(* The first two are inductive next to the types; what makes the first one *)
(* so is that it bounds every message by p, and p by the buffer.  The      *)
(* third needs more: that run is always at a frame of the feed, and that   *)
(* the engine has heard of exactly the messages due before it.             *)
(***************************************************************************)
EXTENDS Parser, SequenceTheorems, WellFoundedInduction, TLAPS

(* The inductive invariant.                                                *)
Inv == TypeOK /\ CallsStayInFrame /\ ReportExplainsBytes

-----------------------------------------------------------------------------
(* The buffer and the counters.                                            *)

USE DEF buf, len

(* A byte of the buffer is a byte.                                         *)
LEMMA ByteIsByte ==
    ASSUME TypeOK, NEW i \in 1..len
    PROVE  buf[i] \in Bytes
BY ElementOfSeq DEF TypeOK

(* load_be16 inside the buffer yields a natural number.                    *)
LEMMA LoadIsNat ==
    ASSUME TypeOK, NEW at \in Nat, at + 2 <= len
    PROVE  load_be16(at) \in Nat
<1>1. len \in Nat
  BY LenProperties DEF TypeOK
<1>2. at + 1 \in 1..len /\ at + 2 \in 1..len
  BY <1>1
<1>3. buf[at + 1] \in Bytes /\ buf[at + 2] \in Bytes
  BY <1>2, ByteIsByte
<1> QED  BY <1>3, BasePositive DEF load_be16, Bytes

(* on_parse_error counts an error and nothing else.                        *)
LEMMA ErrorCounted ==
    ASSUME NEW s \in Counters
    PROVE  /\ on_parse_error(s) \in Counters
           /\ on_parse_error(s).parse_errors = s.parse_errors + 1
           /\ on_parse_error(s).total_messages = s.total_messages
           /\ on_parse_error(s).total_bytes = s.total_bytes
           /\ on_parse_error(s).total_framing_bytes = s.total_framing_bytes
           /\ on_parse_error(s).truncated_messages = s.truncated_messages
BY DEF Counters, on_parse_error

(* on_truncated counts a truncated message and nothing else.               *)
LEMMA TruncatedCounted ==
    ASSUME NEW s \in Counters
    PROVE  /\ on_truncated(s) \in Counters
           /\ on_truncated(s).truncated_messages = s.truncated_messages + 1
           /\ on_truncated(s).total_messages = s.total_messages
           /\ on_truncated(s).total_bytes = s.total_bytes
           /\ on_truncated(s).total_framing_bytes = s.total_framing_bytes
           /\ on_truncated(s).parse_errors = s.parse_errors
BY DEF Counters, on_truncated

(* on_message counts a message, its payload and its prefix.                *)
LEMMA MessageCounted ==
    ASSUME NEW s \in Counters, NEW type \in Bytes, NEW n \in Nat
    PROVE  /\ on_message(s, type, n) \in Counters
           /\ on_message(s, type, n).total_messages = s.total_messages + 1
           /\ on_message(s, type, n).total_bytes = s.total_bytes + n
           /\ on_message(s, type, n).total_framing_bytes = s.total_framing_bytes + 2
           /\ on_message(s, type, n).truncated_messages = s.truncated_messages
           /\ on_message(s, type, n).parse_errors = s.parse_errors
<1> DEFINE pt == [s.per_type EXCEPT ![type] = s.per_type[type] + 1]
<1>1. pt \in [Bytes -> Nat]
  BY DEF Counters
<1>2. on_message(s, type, n) =
        [s EXCEPT !.per_type = pt, !.total_messages = s.total_messages + 1,
                  !.total_bytes = s.total_bytes + n,
                  !.total_framing_bytes = s.total_framing_bytes + 2]
  BY DEF on_message
<1>3. s = [per_type |-> s.per_type, total_messages |-> s.total_messages,
           total_bytes |-> s.total_bytes,
           total_framing_bytes |-> s.total_framing_bytes,
           parse_errors |-> s.parse_errors,
           truncated_messages |-> s.truncated_messages]
  BY DEF Counters
<1> HIDE DEF pt
<1>4. on_message(s, type, n) =
        [per_type |-> pt, total_messages |-> s.total_messages + 1,
         total_bytes |-> s.total_bytes + n,
         total_framing_bytes |-> s.total_framing_bytes + 2,
         parse_errors |-> s.parse_errors,
         truncated_messages |-> s.truncated_messages]
  BY <1>2, <1>3
<1>5. /\ s.total_messages \in Nat /\ s.total_bytes \in Nat
      /\ s.total_framing_bytes \in Nat /\ s.parse_errors \in Nat
      /\ s.truncated_messages \in Nat
  BY DEF Counters
<1>6. on_message(s, type, n) \in Counters
  BY <1>1, <1>4, <1>5 DEF Counters
<1> QED  BY <1>4, <1>6

(* A call of the engine is one more entry.                                 *)
LEMMA CallAppended ==
    ASSUME TypeOK,
           \E t \in Forwarded : calls' = Append(calls, [type |-> t, at |-> p + 2])
    PROVE  /\ calls' \in Seq([type : Forwarded, at : Nat])
           /\ Len(calls') = Len(calls) + 1
<1> DEFINE Entry == [type : Forwarded, at : Nat]
<1>1. PICK t \in Forwarded : calls' = Append(calls, [type |-> t, at |-> p + 2])
  OBVIOUS
<1> DEFINE new == [type |-> t, at |-> p + 2]
<1>2. calls \in Seq(Entry) /\ new \in Entry
  BY DEF TypeOK
<1>3. calls' = Append(calls, new)
  BY <1>1
<1> HIDE DEF new, Entry
<1>4. Append(calls, new) \in Seq(Entry) /\ Len(Append(calls, new)) = Len(calls) + 1
  BY <1>2, AppendProperties
<1> QED  BY <1>3, <1>4 DEF Entry

(* What Dispatch does, with the handlers left open.                        *)
LEMMA DispatchStep ==
    ASSUME TypeOK, Dispatch
    PROVE  /\ payload_len \in Nat
           /\ buf[p + 3] \in Bytes
           /\ p' = p + 2 + payload_len /\ p' <= len
           /\ running /\ running' = running /\ file' = file
<1>1. p \in Nat /\ len \in Nat
  BY LenProperties DEF TypeOK
<1>2. payload_len \in Nat
  BY <1>1, LoadIsNat DEF Dispatch, payload_len
<1>3. p + 3 \in 1..len
  BY <1>1, <1>2 DEF Dispatch
<1> QED  BY <1>1, <1>2, <1>3, ByteIsByte DEF Dispatch

-----------------------------------------------------------------------------
(* The invariant holds when run is called, whatever the file.              *)
LEMMA Initially == Init => Inv
<1> SUFFICES ASSUME Init PROVE Inv
  OBVIOUS
<1>1. buf \in Seq(Bytes)
  <2>1. PICK f \in Feeds : \E n \in 0..Len(f.bytes) :
          file = [sent |-> f.sent, bytes |-> SubSeq(f.bytes, 1, n)]
    BY DEF Init
  <2>2. PICK n \in 0..Len(f.bytes) :
          file = [sent |-> f.sent, bytes |-> SubSeq(f.bytes, 1, n)]
    BY <2>1
  <2>3. f.bytes \in Seq(Bytes) /\ Len(f.bytes) \in Nat
    BY FeedsAreBytes, LenProperties
  <2>4. \A i \in 1..n : f.bytes[i] \in Bytes
    BY <2>3, ElementOfSeq
  <2>5. SubSeq(f.bytes, 1, n) \in Seq(Bytes)
    BY <2>3, <2>4, SubSeqProperties
  <2> QED  BY <2>2, <2>5
<1>2. stats \in Counters
  BY DEF Init, Counters
<1>3. len \in Nat
  BY <1>1, LenProperties
<1>4. TypeOK
  BY <1>1, <1>2, EmptySeq DEF Init, TypeOK
<1>5. CallsStayInFrame
  BY <1>3 DEF Init, CallsStayInFrame
<1>6. ReportExplainsBytes
  BY <1>3 DEF Init, ReportExplainsBytes
<1> QED  BY <1>4, <1>5, <1>6 DEF Inv

(* No way through the loop breaks the types.                               *)
LEMMA TypesKept == TypeOK /\ [Next]_vars => TypeOK'
<1> SUFFICES ASSUME TypeOK, [Next]_vars PROVE TypeOK'
  OBVIOUS
<1>1. CASE TrailingFrame
  <2>1. running' \in BOOLEAN
    BY <1>1 DEF TrailingFrame
  <2>2. /\ buf' \in Seq(Bytes) /\ p' \in Nat /\ stats' \in Counters
        /\ calls' \in Seq([type : Forwarded, at : Nat])
    BY <1>1, ErrorCounted DEF TrailingFrame, TypeOK
  <2> QED  BY <2>1, <2>2 DEF TypeOK
<1>2. CASE EmptyFrame
  BY <1>2, ErrorCounted DEF EmptyFrame, TypeOK
<1>3. CASE Dispatch
  <2> DEFINE n == payload_len
             type == buf[p + 3]
  <2>1. n \in Nat /\ type \in Bytes /\ p \in Nat /\ stats \in Counters
    BY <1>3, DispatchStep DEF TypeOK
  <2>2. \/ stats' = on_parse_error(on_message(stats, type, n))
        \/ stats' = on_truncated(on_message(stats, type, n))
        \/ stats' = on_message(stats, type, n)
    BY <1>3 DEF Dispatch, Unknown, Truncated, Inform, Forward
  <2>3. \/ calls' = calls
        \/ \E t \in Forwarded : calls' = Append(calls, [type |-> t, at |-> p + 2])
    BY <1>3 DEF Dispatch, Unknown, Truncated, Inform, Forward
  <2> HIDE DEF n, type
  <2>4. stats' \in Counters
    BY <2>1, <2>2, MessageCounted, ErrorCounted, TruncatedCounted
  <2>5. calls' \in Seq([type : Forwarded, at : Nat])
    BY <2>3, CallAppended DEF TypeOK
  <2>6. p' \in Nat /\ running' \in BOOLEAN /\ buf' \in Seq(Bytes)
    BY <1>3, <2>1, DispatchStep DEF TypeOK
  <2> QED  BY <2>4, <2>5, <2>6 DEF TypeOK
<1>4. CASE Return
  BY <1>4 DEF Return, TypeOK
<1>5. CASE UNCHANGED vars
  BY <1>5 DEF vars, TypeOK
<1> QED  BY <1>1, <1>2, <1>3, <1>4, <1>5 DEF Next

(* The end of the last message never gets ahead of p, and Dispatch puts    *)
(* the next one at least a prefix behind p.                                *)
LEMMA FramesKept == TypeOK /\ CallsStayInFrame /\ [Next]_vars => CallsStayInFrame'
<1> SUFFICES ASSUME TypeOK, CallsStayInFrame, [Next]_vars
             PROVE  CallsStayInFrame'
  OBVIOUS
<1> DEFINE Behind(c) == c.at + Size[c.type]
           Entry == [type : Forwarded, at : Nat]
<1>1. p \in Nat /\ len \in Nat /\ calls \in Seq(Entry) /\ Len(calls) \in Nat
  BY LenProperties DEF TypeOK
<1>2. \A c \in Entry : Behind(c) \in Nat
  BY TypesAreBytes, MessagesHaveTypes DEF Known
<1>3. \A i \in 1..Len(calls) : calls[i] \in Entry
  BY <1>1, ElementOfSeq
<1>4. /\ \A i \in 1..Len(calls) : Behind(calls[i]) <= p
      /\ \A i \in 1..Len(calls) :
            i < Len(calls) => Behind(calls[i]) + 2 <= calls[i + 1].at
  BY <1>1, LenProperties DEF CallsStayInFrame
<1>5. ASSUME p' \in Nat, p <= p', p' <= len, len' = len, calls' = calls
      PROVE  CallsStayInFrame'
  <2>1. \A i \in 1..Len(calls) : Behind(calls[i]) <= p'
    <3> HIDE DEF Behind
    <3> QED  BY <1>1, <1>2, <1>3, <1>4, <1>5
  <2>2. DOMAIN calls = 1..Len(calls)
    BY <1>1, LenProperties
  <2> QED  BY <1>4, <1>5, <2>1, <2>2 DEF CallsStayInFrame
<1>6. CASE TrailingFrame
  BY <1>1, <1>5, <1>6 DEF TrailingFrame
<1>7. CASE EmptyFrame
  BY <1>1, <1>5, <1>7 DEF EmptyFrame
<1>8. CASE Dispatch
  <2>1. /\ payload_len \in Nat
        /\ p' = p + 2 + payload_len /\ p' <= len /\ len' = len
    BY <1>8, DispatchStep
  <2>2. CASE calls' = calls
    BY <1>1, <1>5, <2>1, <2>2
  <2>3. ASSUME NEW t \in Forwarded, payload_len >= Size[t],
               calls' = Append(calls, [type |-> t, at |-> p + 2])
        PROVE  CallsStayInFrame'
    <3> DEFINE new == [type |-> t, at |-> p + 2]
    <3>1. new \in Entry /\ new.at = p + 2
      BY <1>1
    <3>2. Size[t] \in Nat /\ Behind(new) = p + 2 + Size[t]
      BY TypesAreBytes, MessagesHaveTypes DEF Known
    <3> HIDE DEF new, Behind, Entry
    <3>3. /\ Len(calls') = Len(calls) + 1
          /\ DOMAIN calls' = 1..(Len(calls) + 1)
          /\ \A i \in 1..Len(calls) : calls'[i] = calls[i]
          /\ calls'[Len(calls) + 1] = new
      <4>1. calls' = Append(calls, new)
        BY <2>3 DEF new
      <4>2. Append(calls, new) \in Seq(Entry)
        BY <1>1, <3>1, AppendProperties
      <4> QED  BY <1>1, <3>1, <4>1, <4>2, AppendProperties, LenProperties
    <3>4. ASSUME NEW i \in 1..(Len(calls) + 1)
          PROVE  /\ Behind(calls'[i]) <= p'
                 /\ i < Len(calls') => Behind(calls'[i]) + 2 <= calls'[i + 1].at
      <4>1. CASE i = Len(calls) + 1
        BY <1>1, <2>1, <2>3, <3>2, <3>3, <4>1
      <4>2. CASE i = Len(calls)
        <5>1. Behind(calls[i]) \in Nat /\ Behind(calls[i]) <= p
          BY <1>1, <1>2, <1>3, <1>4, <4>2
        <5>2. calls'[i] = calls[i] /\ calls'[i + 1].at = p + 2
          BY <1>1, <3>1, <3>3, <4>2
        <5> QED  BY <1>1, <2>1, <5>1, <5>2
      <4>3. CASE i < Len(calls)
        <5>1. Behind(calls[i]) \in Nat /\ Behind(calls[i]) <= p
          BY <1>1, <1>2, <1>3, <1>4, <4>3
        <5>2. calls'[i] = calls[i] /\ calls'[i + 1] = calls[i + 1]
          BY <1>1, <3>3, <4>3
        <5>3. Behind(calls[i]) + 2 <= calls[i + 1].at
          BY <1>1, <1>4, <4>3
        <5> QED  BY <1>1, <2>1, <5>1, <5>2, <5>3
      <4> QED  BY <1>1, <4>1, <4>2, <4>3
    <3> QED  BY <2>1, <3>3, <3>4 DEF CallsStayInFrame, Behind
  <2>4. \/ calls' = calls
        \/ \E t \in Forwarded :
              /\ payload_len >= Size[t]
              /\ calls' = Append(calls, [type |-> t, at |-> p + 2])
    BY <1>8 DEF Dispatch, Unknown, Truncated, Inform, Forward, checked_cast
  <2> QED  BY <2>2, <2>3, <2>4
<1>9. CASE Return
  BY <1>1, <1>5, <1>9 DEF Return, CallsStayInFrame
<1>10. CASE UNCHANGED vars
  BY <1>1, <1>5, <1>10 DEF vars, CallsStayInFrame
<1> QED  BY <1>6, <1>7, <1>8, <1>9, <1>10 DEF Next

(* The arithmetic of ReportExplainsBytes: b bytes, f bytes of prefixes, m  *)
(* messages, e errors and t truncated ones, with p at q and k calls made.  *)
Explains(b, f, m, e, t, q, k) ==
    /\ f = 2 * m
    /\ b + f <= q /\ q <= b + f + 2 * e
    /\ k + t <= m

(* A prefix passed as an error, or a message of n bytes that ends in an    *)
(* error, is truncated, ignored or passed on, keeps the balance.           *)
LEMMA BalanceKept ==
    ASSUME NEW b \in Nat, NEW f \in Nat, NEW m \in Nat, NEW e \in Nat,
           NEW t \in Nat, NEW q \in Nat, NEW k \in Nat, NEW n \in Nat,
           Explains(b, f, m, e, t, q, k)
    PROVE  /\ Explains(b, f, m, e + 1, t, q + 2, k)
           /\ Explains(b + n, f + 2, m + 1, e, t, q + 2 + n, k)
           /\ Explains(b + n, f + 2, m + 1, e + 1, t, q + 2 + n, k)
           /\ Explains(b + n, f + 2, m + 1, e, t + 1, q + 2 + n, k)
           /\ Explains(b + n, f + 2, m + 1, e, t, q + 2 + n, k + 1)
BY DEF Explains

(* The same for a record of counters.                                      *)
Balance(s, q, k) ==
    Explains(s.total_bytes, s.total_framing_bytes, s.total_messages,
             s.parse_errors, s.truncated_messages, q, k)

(* No way through the loop breaks the balance of the report.               *)
LEMMA ReportKept == TypeOK /\ ReportExplainsBytes /\ [Next]_vars => ReportExplainsBytes'
<1> SUFFICES ASSUME TypeOK, ReportExplainsBytes, [Next]_vars
             PROVE  ReportExplainsBytes'
  OBVIOUS
<1>1. stats \in Counters /\ len \in Nat /\ p \in Nat /\ Len(calls) \in Nat
  BY LenProperties DEF TypeOK
<1>2. /\ stats.total_messages \in Nat /\ stats.total_bytes \in Nat
      /\ stats.total_framing_bytes \in Nat /\ stats.parse_errors \in Nat
      /\ stats.truncated_messages \in Nat
  BY <1>1 DEF Counters
<1>3. Balance(stats, p, Len(calls))
  BY DEF ReportExplainsBytes, Balance, Explains
<1>4. ASSUME Balance(stats', p', Len(calls')),
             running' \/ stats'.parse_errors # 0 \/ len' - p' < 2
      PROVE  ReportExplainsBytes'
  BY <1>4 DEF ReportExplainsBytes, Balance, Explains
<1>5. CASE TrailingFrame \/ EmptyFrame
  <2>1. stats' = on_parse_error(stats) /\ p' = p + 2 /\ calls' = calls
    BY <1>5 DEF TrailingFrame, EmptyFrame
  <2>2. Explains(stats.total_bytes, stats.total_framing_bytes,
                 stats.total_messages, stats.parse_errors + 1,
                 stats.truncated_messages, p + 2, Len(calls))
    BY <1>1, <1>2, <1>3, BalanceKept DEF Balance
  <2>3. Balance(stats', p', Len(calls'))
    BY <1>1, <2>1, <2>2, ErrorCounted DEF Balance
  <2>4. stats'.parse_errors # 0
    BY <1>1, <1>2, <2>1, ErrorCounted
  <2> QED  BY <1>4, <2>3, <2>4
<1>6. CASE Dispatch
  <2> DEFINE n == payload_len
             m == on_message(stats, buf[p + 3], n)
             After(e, t, k) ==
                Explains(stats.total_bytes + n, stats.total_framing_bytes + 2,
                         stats.total_messages + 1, e, t, p + 2 + n, k)
  <2>1. n \in Nat /\ p' = p + 2 + n /\ running'
    BY <1>6, DispatchStep
  <2>2. /\ m \in Counters
        /\ m.total_messages = stats.total_messages + 1
        /\ m.total_bytes = stats.total_bytes + n
        /\ m.total_framing_bytes = stats.total_framing_bytes + 2
        /\ m.truncated_messages = stats.truncated_messages
        /\ m.parse_errors = stats.parse_errors
    BY <1>1, <1>6, DispatchStep, MessageCounted
  <2>3. \/ stats' = on_parse_error(m) /\ calls' = calls
        \/ stats' = on_truncated(m) /\ calls' = calls
        \/ stats' = m /\ calls' = calls
        \/ /\ stats' = m
           /\ \E t \in Forwarded : calls' = Append(calls, [type |-> t, at |-> p + 2])
    BY <1>6 DEF Dispatch, Unknown, Truncated, Inform, Forward
  <2> HIDE DEF n, m
  <2>4. /\ After(stats.parse_errors, stats.truncated_messages, Len(calls))
        /\ After(stats.parse_errors + 1, stats.truncated_messages, Len(calls))
        /\ After(stats.parse_errors, stats.truncated_messages + 1, Len(calls))
        /\ After(stats.parse_errors, stats.truncated_messages, Len(calls) + 1)
    BY <1>1, <1>2, <1>3, <2>1, BalanceKept DEF Balance
  <2>5. Balance(stats', p', Len(calls'))
    <3>1. CASE stats' = on_parse_error(m) /\ calls' = calls
      BY <2>1, <2>2, <2>4, <3>1, ErrorCounted DEF Balance
    <3>2. CASE stats' = on_truncated(m) /\ calls' = calls
      BY <2>1, <2>2, <2>4, <3>2, TruncatedCounted DEF Balance
    <3>3. CASE stats' = m /\ calls' = calls
      BY <2>1, <2>2, <2>4, <3>3 DEF Balance
    <3>4. CASE /\ stats' = m
               /\ \E t \in Forwarded : calls' = Append(calls, [type |-> t, at |-> p + 2])
      <4>1. Len(calls') = Len(calls) + 1
        BY <3>4, CallAppended
      <4> QED  BY <2>1, <2>2, <2>4, <3>4, <4>1 DEF Balance
    <3> QED  BY <2>3, <3>1, <3>2, <3>3, <3>4
  <2> QED  BY <1>4, <2>1, <2>5
<1>7. CASE Return
  <2>1. /\ stats' = stats /\ p' = p /\ calls' = calls /\ file' = file
        /\ p + 2 > len
    BY <1>7 DEF Return
  <2>2. len' - p' < 2
    BY <1>1, <2>1
  <2> QED  BY <1>3, <1>4, <2>1, <2>2
<1>8. CASE UNCHANGED vars
  BY <1>8 DEF vars, ReportExplainsBytes
<1> QED  BY <1>5, <1>6, <1>7, <1>8 DEF Next

(* The inductive invariant of Parser::run holds.                           *)
THEOREM ParserIsSound == Spec => []Inv
<1>1. Inv /\ [Next]_vars => Inv'
    BY TypesKept, FramesKept, ReportKept DEF Inv
<1> QED
    BY Initially, <1>1, PTL DEF Spec

(* No handler reads a field outside its own frame, however corrupt the     *)
(* file is.                                                                *)
THEOREM NoFieldOutsideFrame == Spec => []CallsStayInFrame
<1>1. Inv => CallsStayInFrame
    BY DEF Inv
<1> QED
    BY ParserIsSound, <1>1, PTL

(* The counters of the report explain every byte that run went past.       *)
THEOREM ReportIsComplete == Spec => []ReportExplainsBytes
<1>1. Inv => ReportExplainsBytes
    BY DEF Inv
<1> QED
    BY ParserIsSound, <1>1, PTL

-----------------------------------------------------------------------------
(* Where the payloads begin.                                               *)

(* A set of natural numbers with an element has a least one: in place of   *)
(* an induction, the least counterexample.                                 *)
LEMMA Smallest ==
    ASSUME NEW T, T \subseteq Nat, T # {}
    PROVE  \E n \in T : \A m \in T : n <= m
<1>1. PICK n \in T : \A m \in T : ~(<<m, n>> \in OpToRel(<, Nat))
  BY NatLessThanWellFounded, WFMin
<1>2. \A m \in T : ~(m < n)
  BY <1>1 DEF OpToRel
<1> QED  BY <1>2

Messages == Seq(Seq(Bytes))

(* What Starts promises for the first m frames.                            *)
StartsOf(g, sent, m) ==
    /\ g \in [1..m -> Nat]
    /\ m >= 1 => g[1] = 2
    /\ \A i \in 1..(m - 1) : g[i + 1] = g[i] + Len(sent[i]) + 2

(* One more frame.                                                         *)
LEMMA StartsExtended ==
    ASSUME NEW sent \in Messages, NEW m \in 1..Len(sent), NEW g, StartsOf(g, sent, m)
    PROVE  \E h : StartsOf(h, sent, m + 1)
<1> DEFINE h == [i \in 1..(m + 1) |-> IF i = m + 1 THEN g[m] + Len(sent[m]) + 2 ELSE g[i]]
<1>1. Len(sent) \in Nat /\ m \in Nat
  BY LenProperties DEF Messages
<1>2. Len(sent[m]) \in Nat /\ g[m] \in Nat
  BY <1>1, ElementOfSeq, LenProperties DEF Messages, StartsOf
<1>3. h \in [1..(m + 1) -> Nat]
  BY <1>1, <1>2 DEF StartsOf
<1>4. h[1] = 2
  BY <1>1 DEF StartsOf
<1>5. ASSUME NEW i \in 1..m PROVE h[i + 1] = h[i] + Len(sent[i]) + 2
  BY <1>1 DEF StartsOf
<1>6. StartsOf(h, sent, m + 1)
  <2> HIDE DEF h
  <2> QED  BY <1>1, <1>3, <1>4, <1>5 DEF StartsOf
<1> QED  BY <1>6

(* The recursion of Starts has a solution.                                 *)
LEMMA StartsExist ==
    ASSUME NEW sent \in Messages
    PROVE  \E g : StartsOf(g, sent, Len(sent) + 1)
<1> DEFINE T == {m \in 1..(Len(sent) + 1) : ~\E g : StartsOf(g, sent, m)}
<1>1. Len(sent) \in Nat
  BY LenProperties DEF Messages
<1>2. CASE T = {}
  <2>1. Len(sent) + 1 \in 1..(Len(sent) + 1) /\ Len(sent) + 1 \notin T
    BY <1>1, <1>2, SMTT(30)
  <2> QED  BY <2>1
<1>3. CASE T # {}
  <2>1. PICK k \in T : \A m \in T : k <= m
    <3> HIDE DEF T
    <3>1. T \subseteq Nat
      BY <1>1 DEF T
    <3> QED  BY <1>3, <3>1, Smallest
  <2>2. CASE k = 1
    <3>1. StartsOf([i \in 1..1 |-> 2], sent, 1)
      BY DEF StartsOf
    <3> QED  BY <2>1, <2>2, <3>1
  <2>3. CASE k # 1
    <3>1. k - 1 \in 1..Len(sent) /\ k - 1 \notin T
      BY <1>1, <2>1, <2>3
    <3>2. PICK g : StartsOf(g, sent, k - 1)
      BY <1>1, <3>1
    <3>3. \E h : StartsOf(h, sent, (k - 1) + 1)
      <4> HIDE DEF T
      <4> QED  BY <3>1, <3>2, StartsExtended
    <3> QED  BY <1>1, <2>1, <3>3
  <2> QED  BY <2>2, <2>3
<1> QED  BY <1>2, <1>3

(* Starts puts each payload two bytes behind the end of the one before.    *)
LEMMA StartsAre ==
    ASSUME NEW sent \in Messages
    PROVE  StartsOf(Starts(sent), sent, Len(sent) + 1)
<1> DEFINE n == Len(sent)
           Next1(g) == [i \in 1..(n + 1) |->
                            IF i = 1 THEN 2 ELSE g[i - 1] + Len(sent[i - 1]) + 2]
           start == CHOOSE g : g = Next1(g)
<1>1. n \in Nat
  BY LenProperties DEF Messages
<1>2. \E g : g = Next1(g)
  <2>1. PICK g : StartsOf(g, sent, n + 1)
    BY StartsExist
  <2>2. \A i \in 1..(n + 1) : i # 1 => i - 1 \in 1..n /\ (i - 1) + 1 = i
    BY <1>1
  <2>3. \A i \in 1..(n + 1) : g[i] = IF i = 1 THEN 2 ELSE g[i - 1] + Len(sent[i - 1]) + 2
    BY <1>1, <2>1, <2>2 DEF StartsOf
  <2>4. g = [i \in 1..(n + 1) |-> g[i]]
    BY <2>1 DEF StartsOf
  <2>5. g = Next1(g)
    BY <2>3, <2>4
  <2> QED  BY <2>5
<1>3. start = Next1(start)
  BY <1>2
<1>4. Starts(sent) = start
  BY DEF Starts
<1> HIDE DEF start
<1>5. start[1] = 2
  BY <1>1, <1>3
<1>6. ASSUME NEW i \in 1..n PROVE start[i + 1] = start[i] + Len(sent[i]) + 2
  <2>1. i + 1 \in 1..(n + 1) /\ i + 1 # 1 /\ (i + 1) - 1 = i
    BY <1>1
  <2> QED  BY <1>3, <2>1
<1> DEFINE T == {i \in 1..(n + 1) : start[i] \notin Nat}
<1>7. T = {}
  <2> SUFFICES ASSUME T # {} PROVE FALSE
    OBVIOUS
  <2>1. PICK k \in T : \A m \in T : k <= m
    <3> HIDE DEF T
    <3>1. T \subseteq Nat
      BY <1>1 DEF T
    <3> QED  BY <3>1, Smallest
  <2>2. k # 1
    BY <1>5
  <2>3. PICK i \in 1..n : k = i + 1 /\ start[i] \in Nat
    <3>1. k - 1 \in 1..n /\ start[k - 1] \in Nat /\ k = (k - 1) + 1
      BY <1>1, <2>1, <2>2
    <3> QED  BY <3>1
  <2>4. Len(sent[i]) \in Nat
    BY ElementOfSeq, LenProperties DEF Messages
  <2>5. start[k] \in Nat
    BY <1>6, <2>3, <2>4
  <2> QED  BY <2>1, <2>5
<1>8. start \in [1..(n + 1) -> Nat]
  <2>1. start = [i \in 1..(n + 1) |-> start[i]]
    BY <1>3
  <2> QED  BY <1>7, <2>1
<1> HIDE DEF T, Next1
<1> QED  BY <1>1, <1>4, <1>5, <1>6, <1>8 DEF StartsOf

(* The payloads lie behind one another.                                    *)
LEMMA StartsIncrease ==
    ASSUME NEW sent \in Messages, NEW j \in 1..Len(sent), NEW i \in (j + 1)..(Len(sent) + 1)
    PROVE  Starts(sent)[i] >= Starts(sent)[j] + Len(sent[j]) + 2
<1> DEFINE start == Starts(sent)
           n == Len(sent)
           T == {k \in (j + 1)..(n + 1) : ~(start[k] >= start[j] + Len(sent[j]) + 2)}
<1>1. n \in Nat /\ j \in Nat
  BY LenProperties DEF Messages
<1>2. /\ \A k \in 1..(n + 1) : start[k] \in Nat
      /\ \A k \in 1..n : start[k + 1] = start[k] + Len(sent[k]) + 2
  BY <1>1, StartsAre DEF StartsOf
<1>3. \A k \in 1..n : Len(sent[k]) \in Nat
  BY ElementOfSeq, LenProperties DEF Messages
<1> HIDE DEF start
<1>4. T = {}
  <2> SUFFICES ASSUME T # {} PROVE FALSE
    OBVIOUS
  <2>1. PICK k \in T : \A m \in T : k <= m
    <3> HIDE DEF T
    <3>1. T \subseteq Nat
      BY <1>1 DEF T
    <3> QED  BY <3>1, Smallest
  <2>2. CASE k = j + 1
    BY <1>1, <1>2, <1>3, <2>1, <2>2
  <2>3. CASE k # j + 1
    <3>1. PICK e \in (j + 1)..n : k = e + 1 /\ e \notin T
      <4>1. k - 1 \in (j + 1)..n /\ k = (k - 1) + 1 /\ k - 1 \notin T
        BY <1>1, <2>1, <2>3
      <4> QED  BY <4>1
    <3>2. e \in 1..n /\ e \in 1..(n + 1) /\ j \in 1..(n + 1) /\ e \in (j + 1)..(n + 1)
      BY <1>1, <3>1
    <3>3. start[e] >= start[j] + Len(sent[j]) + 2
      BY <3>1, <3>2
    <3>4. start[k] = start[e] + Len(sent[e]) + 2
      BY <1>2, <3>1, <3>2
    <3>5. /\ start[e] \in Nat /\ start[j] \in Nat
          /\ Len(sent[e]) \in Nat /\ Len(sent[j]) \in Nat
      BY <1>2, <1>3, <3>2
    <3>6. start[k] >= start[j] + Len(sent[j]) + 2
      BY <3>3, <3>4, <3>5, SMTT(30)
    <3> QED  BY <2>1, <3>6
  <2> QED  BY <2>2, <2>3
<1> QED  BY <1>4 DEF start

-----------------------------------------------------------------------------
(* The messages the engine hears of.                                       *)

(* The file is the front of a framed feed.                                 *)
FrontOfFeed ==
    LET sent == file.sent
        start == Starts(sent)
    IN  /\ sent \in Messages
        /\ len <= start[Len(sent) + 1] - 2
        /\ \A i \in 1..Len(sent) :
              /\ start[i] <= len => load_be16(start[i] - 2) = Len(sent[i])
              /\ \A k \in 1..Len(sent[i]) : start[i] + k <= len => buf[start[i] + k] = sent[i][k]

Heard == {calls[k] : k \in DOMAIN calls}

(* run is about to read the frame of message j, or what would be behind    *)
(* the last one, and the engine has heard of those before j.               *)
AtFrame(j) ==
    /\ j \in 1..(Len(file.sent) + 1)
    /\ p + 2 = Starts(file.sent)[j]
    /\ Heard = {CallFor(i) : i \in {d \in Due : d < j}}

(* run is always at a frame of the feed, until it has told everything.     *)
Progress ==
    /\ running => \E j \in Nat : AtFrame(j)
    /\ ~running => Heard = {CallFor(i) : i \in Due}

(* What the starts of a file's payloads are good for.                      *)
LEMMA FrameFacts ==
    ASSUME FrontOfFeed
    PROVE  /\ Len(file.sent) \in Nat
           /\ \A i \in 1..(Len(file.sent) + 1) : Starts(file.sent)[i] \in Nat
           /\ Starts(file.sent)[1] = 2
           /\ \A i \in 1..Len(file.sent) :
                 /\ file.sent[i] \in Seq(Bytes)
                 /\ Len(file.sent[i]) \in Nat
                 /\ Starts(file.sent)[i] >= 2
                 /\ Starts(file.sent)[i + 1] =
                        Starts(file.sent)[i] + Len(file.sent[i]) + 2
           /\ \A j \in 1..Len(file.sent) : \A i \in (j + 1)..(Len(file.sent) + 1) :
                 Starts(file.sent)[i] >= Starts(file.sent)[j] + Len(file.sent[j]) + 2
<1> DEFINE sent == file.sent
           start == Starts(sent)
           n == Len(sent)
<1>1. sent \in Messages
  BY DEF FrontOfFeed
<1>2. n \in Nat
  BY <1>1, LenProperties DEF Messages
<1>3. StartsOf(start, sent, n + 1)
  BY <1>1, StartsAre
<1>4. \A i \in 1..n : sent[i] \in Seq(Bytes) /\ Len(sent[i]) \in Nat
  BY <1>1, ElementOfSeq, LenProperties DEF Messages
<1>5. \A j \in 1..n : \A i \in (j + 1)..(n + 1) : start[i] >= start[j] + Len(sent[j]) + 2
  BY <1>1, StartsIncrease
<1>6. /\ \A i \in 1..(n + 1) : start[i] \in Nat
      /\ start[1] = 2
      /\ \A i \in 1..n : start[i + 1] = start[i] + Len(sent[i]) + 2
  <2> HIDE DEF start, n
  <2>1. (n + 1) - 1 = n /\ n + 1 >= 1
    BY <1>2
  <2> QED  BY <1>3, <2>1 DEF StartsOf
<1>7. ASSUME NEW i \in 1..n PROVE start[i] >= 2
  <2>1. CASE i = 1
    BY <1>6, <2>1
  <2>2. CASE i # 1
    <3>1. 1 \in 1..n /\ i \in 2..(n + 1)
      BY <1>2, <2>2
    <3>2. start[i] >= start[1] + Len(sent[1]) + 2
      BY <1>5, <3>1
    <3> QED  BY <1>4, <1>6, <3>1, <3>2
  <2> QED  BY <2>1, <2>2
<1> QED  BY <1>2, <1>4, <1>5, <1>6, <1>7

(* From a frame that does not fit into the file on, no message is due.     *)
LEMMA NothingDueBehind ==
    ASSUME TypeOK, FrontOfFeed, NEW j \in 1..(Len(file.sent) + 1),
           \/ Starts(file.sent)[j] > len
           \/ /\ j <= Len(file.sent)
              /\ Starts(file.sent)[j] + Len(file.sent[j]) > len
    PROVE  {d \in Due : d < j} = Due
<1> DEFINE sent == file.sent
           start == Starts(sent)
<1>1. /\ Len(sent) \in Nat /\ len \in Nat
      /\ \A i \in 1..(Len(sent) + 1) : start[i] \in Nat
      /\ \A i \in 1..Len(sent) : Len(sent[i]) \in Nat
      /\ \A k \in 1..Len(sent) : \A i \in (k + 1)..(Len(sent) + 1) :
            start[i] >= start[k] + Len(sent[k]) + 2
  BY FrameFacts, LenProperties DEF TypeOK
<1>2. DOMAIN sent = 1..Len(sent)
  BY LenProperties DEF FrontOfFeed, Messages
<1>3. ASSUME NEW d \in Due PROVE d < j
  <2>1. d \in 1..Len(sent) /\ start[d] + Len(sent[d]) <= len
    BY <1>2 DEF Due
  <2>2. ASSUME d >= j PROVE FALSE
    <3>1. j \in 1..Len(sent) /\ j \in 1..(Len(sent) + 1)
      BY <1>1, <2>1, <2>2
    <3>2. start[j] + Len(sent[j]) > len
      BY <1>1, <3>1
    <3>3. CASE d = j
      BY <1>1, <2>1, <3>1, <3>2, <3>3
    <3>4. CASE d # j
      <4>1. d \in (j + 1)..(Len(sent) + 1) /\ d \in 1..(Len(sent) + 1)
        BY <1>1, <2>1, <2>2, <3>4
      <4>2. start[d] >= start[j] + Len(sent[j]) + 2
        BY <1>1, <3>1, <4>1
      <4> HIDE DEF start, sent
      <4> QED  BY <1>1, <2>1, <3>1, <3>2, <4>1, <4>2, SMTT(30)
    <3> QED  BY <3>3, <3>4
  <2> QED  BY <1>1, <2>1, <2>2
<1> QED  BY <1>3

(* run begins at the front of a framed feed.                               *)
LEMMA FeedInitially ==
    ASSUME \A f \in Feeds : IsFramed(f), Init
    PROVE  FrontOfFeed /\ Progress
<1>0. PICK f \in Feeds : \E n \in 0..Len(f.bytes) :
        file = [sent |-> f.sent, bytes |-> SubSeq(f.bytes, 1, n)]
  BY DEF Init
<1>1. PICK n \in 0..Len(f.bytes) :
        file = [sent |-> f.sent, bytes |-> SubSeq(f.bytes, 1, n)]
  BY <1>0
<1> DEFINE sent == f.sent
           start == Starts(sent)
<1>2. f.bytes \in Seq(Bytes) /\ Len(f.bytes) \in Nat
  BY FeedsAreBytes, LenProperties
<1>3. n \in Nat /\ n <= Len(f.bytes)
  BY <1>2
<1>4. len = n /\ \A i \in 1..n : buf[i] = f.bytes[i]
  BY <1>1, <1>2, <1>3, SubSeqProperties
<1>5. /\ sent \in Messages
      /\ Len(f.bytes) = start[Len(sent) + 1] - 2
      /\ \A i \in DOMAIN sent :
            /\ f.bytes[start[i] - 1] * Base + f.bytes[start[i]] = Len(sent[i])
            /\ \A k \in DOMAIN sent[i] : f.bytes[start[i] + k] = sent[i][k]
  BY DEF IsFramed, Messages
<1>6. StartsOf(start, sent, Len(sent) + 1) /\ Len(sent) \in Nat /\ DOMAIN sent = 1..Len(sent)
  BY <1>5, StartsAre, LenProperties DEF Messages
<1>7. \A i \in 1..(Len(sent) + 1) : start[i] \in Nat /\ start[1] = 2
  BY <1>6 DEF StartsOf
<1>8. file.sent = sent
  BY <1>1
<1>9. \A i \in 1..Len(sent) : DOMAIN sent[i] = 1..Len(sent[i]) /\ Len(sent[i]) \in Nat
  BY <1>5, ElementOfSeq, LenProperties DEF Messages
<1> HIDE DEF start, sent
<1>10. ASSUME NEW i \in 1..Len(sent), start[i] <= len, start[i] >= 2
       PROVE  load_be16(start[i] - 2) = Len(sent[i])
  <2>1. start[i] \in Nat
    BY <1>6, <1>7
  <2>2. start[i] - 1 \in 1..n /\ start[i] \in 1..n
    BY <1>3, <1>4, <1>10, <2>1
  <2>3. (start[i] - 2) + 1 = start[i] - 1 /\ (start[i] - 2) + 2 = start[i]
    BY <2>1
  <2>4. load_be16(start[i] - 2) = buf[start[i] - 1] * Base + buf[start[i]]
    BY <2>3 DEF load_be16
  <2>5. f.bytes[start[i] - 1] * Base + f.bytes[start[i]] = Len(sent[i])
    BY <1>5, <1>6
  <2>6. buf[start[i] - 1] = f.bytes[start[i] - 1] /\ buf[start[i]] = f.bytes[start[i]]
    BY <1>4, <2>2
  <2> QED  BY <2>4, <2>5, <2>6
<1>11. ASSUME NEW i \in 1..Len(sent), NEW k \in 1..Len(sent[i]), start[i] + k <= len
       PROVE  buf[start[i] + k] = sent[i][k]
  <2>1. start[i] \in Nat
    BY <1>6, <1>7
  <2>2. start[i] + k \in 1..n
    BY <1>3, <1>4, <1>9, <1>11, <2>1
  <2>3. f.bytes[start[i] + k] = sent[i][k]
    BY <1>5, <1>6, <1>9
  <2> QED  BY <1>4, <2>2, <2>3
<1>12. ASSUME NEW i \in 1..Len(sent) PROVE start[i] >= 2
  <2>1. CASE i = 1
    BY <1>6, <1>7, <2>1
  <2>2. CASE i # 1
    <3>1. 1 \in 1..Len(sent) /\ i \in (1 + 1)..(Len(sent) + 1)
      BY <1>6, <2>2
    <3>2. start[i] >= start[1] + Len(sent[1]) + 2
      BY <1>5, <3>1, StartsIncrease DEF start
    <3> QED  BY <1>6, <1>7, <1>9, <3>1, <3>2
  <2> QED  BY <2>1, <2>2
<1>13. len <= start[Len(sent) + 1] - 2
  BY <1>3, <1>4, <1>5
<1>14. FrontOfFeed
  BY <1>5, <1>8, <1>10, <1>11, <1>12, <1>13 DEF FrontOfFeed, start
<1>15. Heard = {}
  BY DEF Init, Heard
<1>16. AtFrame(1)
  <2>1. 1 \in 1..(Len(sent) + 1) /\ p + 2 = start[1]
    BY <1>6, <1>7 DEF Init
  <2>2. {d \in Due : d < 1} = {}
    BY <1>6, <1>8 DEF Due
  <2> QED  BY <1>8, <1>15, <2>1, <2>2 DEF AtFrame, start
<1>17. Progress
  BY <1>16 DEF Progress, Init
<1> QED  BY <1>14, <1>17

(* A step from frame j to the next one: the engine hears of message j if   *)
(* it is due.                                                              *)
LEMMA NextFrame ==
    ASSUME FrontOfFeed, NEW j \in 1..Len(file.sent), AtFrame(j),
           file' = file, p' = p + 2 + Len(file.sent[j]),
           Heard' = IF j \in Due THEN Heard \cup {CallFor(j)} ELSE Heard
    PROVE  AtFrame(j + 1)'
<1> DEFINE sent == file.sent
           start == Starts(sent)
<1>1. /\ Len(sent) \in Nat /\ start[j] \in Nat /\ Len(sent[j]) \in Nat
      /\ start[j + 1] = start[j] + Len(sent[j]) + 2
  BY FrameFacts
<1>2. Due' = Due /\ \A i : CallFor(i)' = CallFor(i)
  BY DEF Due, CallFor
<1>3. Due \subseteq Nat
  BY LenProperties DEF Due, FrontOfFeed, Messages
<1>4. {d \in Due : d < j + 1} =
        IF j \in Due THEN {d \in Due : d < j} \cup {j} ELSE {d \in Due : d < j}
  <2>1. j \in Nat
    BY <1>1
  <2>2. \A d \in Due : d < j + 1 <=> d < j \/ d = j
    BY <1>3, <2>1
  <2>3. ~(j < j)
    BY <2>1
  <2>4. CASE j \in Due
    BY <2>2, <2>3, <2>4
  <2>5. CASE j \notin Due
    BY <2>2, <2>5
  <2> QED  BY <2>4, <2>5
<1>5. Heard' = {CallFor(i) : i \in {d \in Due : d < j + 1}}
  <2> HIDE DEF sent, start
  <2>1. Heard = {CallFor(i) : i \in {d \in Due : d < j}}
    BY DEF AtFrame
  <2> QED  BY <1>4, <2>1
<1>6. p' + 2 = start[j + 1]
  BY <1>1 DEF AtFrame
<1>7. j + 1 \in 1..(Len(sent) + 1)
  BY <1>1
<1> QED  BY <1>2, <1>5, <1>6, <1>7 DEF AtFrame

(* The engine hears of one more message.                                   *)
LEMMA OneMoreHeard ==
    ASSUME TypeOK, NEW c \in [type : Forwarded, at : Nat], calls' = Append(calls, c)
    PROVE  Heard' = Heard \cup {c}
<1> DEFINE Entry == [type : Forwarded, at : Nat]
<1>1. calls \in Seq(Entry) /\ Len(calls) \in Nat
  BY LenProperties DEF TypeOK
<1> HIDE DEF Entry
<1>2. c \in Entry
  BY DEF Entry
<1>3. /\ calls' \in Seq(Entry)
      /\ Len(calls') = Len(calls) + 1
      /\ \A i \in 1..Len(calls) : calls'[i] = calls[i]
      /\ calls'[Len(calls) + 1] = c
  BY <1>1, <1>2, AppendProperties
<1>4. DOMAIN calls = 1..Len(calls) /\ DOMAIN calls' = 1..(Len(calls) + 1)
  BY <1>1, <1>3, LenProperties
<1>5. 1..(Len(calls) + 1) = 1..Len(calls) \cup {Len(calls) + 1}
  BY <1>1
<1>6. {calls'[k] : k \in DOMAIN calls'} = {calls[k] : k \in DOMAIN calls} \cup {c}
  BY <1>3, <1>4, <1>5
<1> QED  BY <1>6 DEF Heard

(* Message j, which begins at p + 2 and is whole in the file.              *)
LEMMA FrameAtHand ==
    ASSUME TypeOK, FrontOfFeed, NEW j \in Nat, AtFrame(j), p + 2 <= len
    PROVE  /\ j \in 1..Len(file.sent)
           /\ payload_len = Len(file.sent[j])
           /\ payload_len > 0 /\ p + 2 + payload_len <= len =>
                 buf[p + 3] = file.sent[j][1] /\ file.sent[j] # <<>>
           /\ payload_len = 0 => file.sent[j] = <<>>
           /\ CallFor(j).at = p + 2
<1> DEFINE sent == file.sent
           start == Starts(sent)
<1>1. /\ Len(sent) \in Nat /\ len \in Nat /\ p \in Nat
      /\ \A i \in 1..(Len(sent) + 1) : start[i] \in Nat
      /\ \A i \in 1..Len(sent) : sent[i] \in Seq(Bytes) /\ Len(sent[i]) \in Nat
  BY FrameFacts, LenProperties DEF TypeOK
<1>2. /\ j \in 1..(Len(sent) + 1) /\ p + 2 = start[j]
      /\ len <= start[Len(sent) + 1] - 2
  BY DEF AtFrame, FrontOfFeed
<1>3. j \in 1..Len(sent)
  <2>1. j # Len(sent) + 1
    BY <1>1, <1>2
  <2>2. Len(sent) \in Nat
    BY <1>1
  <2> HIDE DEF sent, start
  <2> QED  BY <1>2, <2>1, <2>2
<1>4. start[j] <= len /\ start[j] - 2 = p
  BY <1>1, <1>2
<1>5. payload_len = Len(sent[j])
  BY <1>3, <1>4 DEF FrontOfFeed, payload_len
<1>6. ASSUME payload_len > 0, p + 2 + payload_len <= len
      PROVE  buf[p + 3] = sent[j][1] /\ sent[j] # <<>>
  <2>1. 1 \in 1..Len(sent[j]) /\ start[j] + 1 <= len /\ start[j] + 1 = p + 3
    <3>1. Len(sent[j]) \in Nat /\ p \in Nat /\ len \in Nat
      BY <1>1, <1>3
    <3>2. start[j] = p + 2 /\ payload_len = Len(sent[j])
      BY <1>2, <1>5
    <3>3. start[j] + 1 = p + 3
      BY <3>1, <3>2
    <3>4. Len(sent[j]) > 0 /\ p + 2 + Len(sent[j]) <= len
      BY <1>6, <3>2
    <3>5. \A m, e \in Nat : m > 0 /\ p + 2 + m <= e => 1 \in 1..m /\ p + 3 <= e
      BY <3>1
    <3> QED  BY <3>1, <3>3, <3>4, <3>5
  <2>2. buf[start[j] + 1] = sent[j][1]
    BY <1>3, <2>1 DEF FrontOfFeed
  <2>3. sent[j] # <<>>
    BY <1>1, <1>3, <1>5, <1>6, EmptySeq
  <2> QED  BY <2>1, <2>2, <2>3
<1>7. payload_len = 0 => sent[j] = <<>>
  BY <1>1, <1>3, <1>5, EmptySeq
<1>8. CallFor(j).at = p + 2
  BY <1>2 DEF CallFor
<1> QED  BY <1>3, <1>5, <1>6, <1>7, <1>8

(* Every way through the loop takes exactly one frame of the feed.         *)
LEMMA FeedKept ==
    TypeOK /\ FrontOfFeed /\ Progress /\ [Next]_vars => FrontOfFeed' /\ Progress'
<1> SUFFICES ASSUME TypeOK, FrontOfFeed, Progress, [Next]_vars
             PROVE  FrontOfFeed' /\ Progress'
  OBVIOUS
<1>1. file' = file
  BY DispatchStep DEF Next, vars, TrailingFrame, EmptyFrame, Return
<1>2. FrontOfFeed'
  BY <1>1 DEF FrontOfFeed, load_be16
<1>3. Due' = Due /\ \A i : CallFor(i)' = CallFor(i)
  BY <1>1 DEF Due, CallFor
<1>4. len \in Nat /\ p \in Nat
  BY LenProperties DEF TypeOK
<1>5. ASSUME running, NEW j \in Nat, AtFrame(j), Next
      PROVE  Progress'
  <2>0. j \in 1..(Len(file.sent) + 1) /\ p + 2 = Starts(file.sent)[j]
    BY <1>5 DEF AtFrame
  <2>1. CASE TrailingFrame
    <3>1. j \in 1..Len(file.sent) /\ payload_len = Len(file.sent[j])
      BY <1>5, <2>1, FrameAtHand DEF TrailingFrame
    <3>2. Starts(file.sent)[j] + Len(file.sent[j]) > len
      BY <2>0, <2>1, <3>1 DEF TrailingFrame
    <3>3. j <= Len(file.sent)
      BY <3>1, FrameFacts
    <3>4. {d \in Due : d < j} = Due
      BY <2>0, <3>2, <3>3, NothingDueBehind
    <3>5. Heard' = Heard /\ running' = FALSE
      BY <2>1 DEF TrailingFrame, Heard
    <3>6. Heard' = {CallFor(i) : i \in Due}
      BY <1>5, <3>4, <3>5 DEF AtFrame
    <3> QED  BY <1>3, <3>5, <3>6 DEF Progress
  <2>2. CASE EmptyFrame
    <3>1. /\ j \in 1..Len(file.sent) /\ Len(file.sent[j]) = 0
          /\ file.sent[j] = <<>>
      BY <1>5, <2>2, FrameAtHand DEF EmptyFrame
    <3>2. j \notin Due
      BY <3>1 DEF Due
    <3>3. Heard' = Heard /\ running' = running /\ p' = p + 2 + Len(file.sent[j])
      BY <1>4, <2>2, <3>1 DEF EmptyFrame, Heard
    <3>4. AtFrame(j + 1)'
      BY <1>1, <1>5, <3>1, <3>2, <3>3, NextFrame
    <3> QED  BY <1>5, <3>3, <3>4 DEF Progress
  <2>3. CASE Dispatch
    <3> DEFINE type == buf[p + 3]
    <3>1. /\ j \in 1..Len(file.sent) /\ payload_len = Len(file.sent[j])
          /\ type = file.sent[j][1] /\ file.sent[j] # <<>>
          /\ CallFor(j).at = p + 2
      BY <1>5, <2>3, FrameAtHand DEF Dispatch
    <3>2. p' = p + 2 + Len(file.sent[j]) /\ running' = running
      BY <2>3, <3>1, DispatchStep
    <3>3. /\ Starts(file.sent)[j] + Len(file.sent[j]) <= len
          /\ j \in DOMAIN file.sent
      <4>1. j \in DOMAIN file.sent
        BY <3>1, LenProperties DEF FrontOfFeed, Messages
      <4>2. p + 2 + payload_len <= len
        BY <2>3 DEF Dispatch
      <4> QED  BY <2>0, <3>1, <4>1, <4>2
    <3>4. j \in Due <=> type \in Forwarded /\ checked_cast(type, payload_len)
      BY <3>1, <3>3 DEF Due, checked_cast
    <3>5. \/ /\ ~(type \in Forwarded /\ checked_cast(type, payload_len))
             /\ calls' = calls
          \/ /\ type \in Forwarded /\ checked_cast(type, payload_len)
             /\ calls' = Append(calls, [type |-> type, at |-> p + 2])
      BY <2>3, TypesAreBytes DEF Dispatch, Unknown, Truncated, Inform, Forward
    <3>6. Heard' = IF j \in Due THEN Heard \cup {CallFor(j)} ELSE Heard
      <4>1. CASE j \notin Due
        BY <3>4, <3>5, <4>1 DEF Heard
      <4>2. CASE j \in Due
        <5>1. CallFor(j) = [type |-> type, at |-> p + 2]
          BY <3>1 DEF CallFor
        <5>2. CallFor(j) \in [type : Forwarded, at : Nat]
          BY <1>4, <3>4, <4>2, <5>1
        <5>3. calls' = Append(calls, CallFor(j))
          BY <3>4, <3>5, <4>2, <5>1
        <5> QED  BY <4>2, <5>2, <5>3, OneMoreHeard
      <4> QED  BY <4>1, <4>2
    <3>7. AtFrame(j + 1)'
      BY <1>1, <1>5, <3>1, <3>2, <3>6, NextFrame
    <3> QED  BY <1>5, <3>2, <3>7 DEF Progress
  <2>4. CASE Return
    <3>1. Starts(file.sent)[j] > len
      BY <2>0, <2>4 DEF Return
    <3>2. {d \in Due : d < j} = Due
      BY <2>0, <3>1, NothingDueBehind
    <3>3. Heard' = Heard /\ running' = FALSE
      BY <2>4 DEF Return, Heard
    <3>4. Heard' = {CallFor(i) : i \in Due}
      BY <1>5, <3>2, <3>3 DEF AtFrame
    <3> QED  BY <1>3, <3>3, <3>4 DEF Progress
  <2> QED  BY <1>5, <2>1, <2>2, <2>3, <2>4 DEF Next
<1>6. CASE UNCHANGED vars
  <2>1. Heard' = Heard /\ running' = running /\ \A j : AtFrame(j)' = AtFrame(j)
    BY <1>6 DEF vars, Heard, AtFrame, Due, CallFor
  <2> QED  BY <1>2, <1>3, <2>1 DEF Progress
<1>7. CASE Next
  <2>1. running
    BY <1>7 DEF Next, TrailingFrame, EmptyFrame, Dispatch, Return
  <2> QED  BY <1>2, <1>5, <1>7, <2>1 DEF Progress
<1> QED  BY <1>2, <1>6, <1>7

(* Messages that end before the next one begins are in order.              *)
LEMMA CallsInOrder ==
    ASSUME TypeOK, CallsStayInFrame
    PROVE  \A k \in 1..(Len(calls) - 1) : calls[k].at < calls[k + 1].at
<1>1. Len(calls) \in Nat /\ DOMAIN calls = 1..Len(calls)
  BY LenProperties DEF TypeOK
<1> SUFFICES ASSUME NEW k \in 1..(Len(calls) - 1)
             PROVE  calls[k].at < calls[k + 1].at
  OBVIOUS
<1>2. k \in 1..Len(calls) /\ k < Len(calls) /\ k + 1 \in 1..Len(calls)
  BY <1>1
<1>3. /\ calls[k] \in [type : Forwarded, at : Nat]
      /\ calls[k + 1] \in [type : Forwarded, at : Nat]
  BY <1>2, ElementOfSeq DEF TypeOK
<1>4. Size[calls[k].type] \in Nat
  BY <1>3, TypesAreBytes, MessagesHaveTypes DEF Known
<1>5. calls[k].at + Size[calls[k].type] + 2 <= calls[k + 1].at
  BY <1>1, <1>2 DEF CallsStayInFrame
<1> QED  BY <1>3, <1>4, <1>5

(* If what is fed to the parser are framed messages, however the file is   *)
(* cut off, the engine hears of all that are due, each once and in order.  *)
THEOREM FeedIsDelivered ==
    ASSUME \A f \in Feeds : IsFramed(f)
    PROVE  Spec => []FeedDelivered
<1>1. Init => FrontOfFeed /\ Progress
    BY FeedInitially
<1>2. Inv /\ FrontOfFeed /\ Progress => FeedDelivered
    BY CallsInOrder DEF Inv, Progress, FeedDelivered, Heard
<1>3. Inv /\ FrontOfFeed /\ Progress /\ [Next]_vars => (FrontOfFeed /\ Progress)'
    BY FeedKept DEF Inv
<1> QED
    BY ParserIsSound, <1>1, <1>2, <1>3, PTL DEF Spec

=============================================================================
