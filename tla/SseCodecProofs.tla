--------------------------- MODULE SseCodecProofs ----------------------------
(***************************************************************************)
(* Without line separators in its payloads a response is read back as it   *)
(* was written, wherever it is cut: what a parser holds is determined by   *)
(* the message being read and how many of its lines were fed.              *)
(***************************************************************************)
EXTENDS SseCodec, TLAPS

\* Every message is in its place, of one of the two types, and in one piece.
Readable ==
    /\ Len(Messages) \in Nat
    /\ \A i \in 1 .. Len(Messages) :
         /\ Messages[i] = [id |-> i, type |-> Messages[i].type, data |-> Messages[i].data]
         /\ Messages[i].type \in {"message", "gap"}
         /\ Messages[i].data \notin Broken
         /\ Messages[i].data # Fragment
    /\ None \notin Nat
    /\ \A t, i, d : [type |-> t, id |-> i, data |-> d] # None

Payloads == {Messages[i].data : i \in 1 .. Len(Messages)}
Event == [id : Nat, data : Payloads]

\* The lines of m, and the parser that was fed k of them.
Offset(m) == IF m.type = "message" THEN 0 ELSE 1
After(m, k) ==
    [type |-> IF k >= 1 /\ m.type # "message" THEN m.type ELSE "message",
     id |-> IF k > Offset(m) THEN m.id ELSE None,
     data |-> IF k > Offset(m) + 1 THEN <<m.data>> ELSE <<>>]

IInv ==
    /\ status \in {"reading", "trimmed"}
    /\ cursor \in Nat
    /\ yielded \in Seq(Event)
    /\ Delivered
    /\ status = "reading" =>
         /\ at = cursor + 1
         /\ fed \in Nat
         /\ at <= Len(Messages) => /\ fed < Offset(Messages[at]) + 3
                                   /\ parser = After(Messages[at], fed)
         /\ at > Len(Messages) => fed = 0 /\ parser = Fresh

-----------------------------------------------------------------------------
\* A message in one piece is three lines, after one with its type if it names it.
LEMMA LinesOf ==
    ASSUME NEW m, m.data \notin Broken, m.type \in {"message", "gap"}
    PROVE  /\ Len(Lines(m)) = Offset(m) + 3
           /\ m.type = "gap" => Lines(m)[1] = Line("event", m.type)
           /\ Lines(m)[Offset(m) + 1] = Line("id", m.id)
           /\ Lines(m)[Offset(m) + 2] = Line("data", m.data)
           /\ Lines(m)[Offset(m) + 3] = Blank
<1> DEFINE B == <<Line("id", m.id), Line("data", m.data), Blank>>
           E == <<Line("event", m.type)>>
           S == {Line("id", m.id), Line("data", m.data), Blank, Line("event", m.type)}
<1>1. Body(m) = B
  BY DEF Body
<1>2. /\ Len(B) = 3 /\ B[1] = Line("id", m.id) /\ B[2] = Line("data", m.data) /\ B[3] = Blank
      /\ Len(E) = 1 /\ E[1] = Line("event", m.type)
      /\ B \in Seq(S) /\ E \in Seq(S)
  OBVIOUS
<1>3. CASE m.type = "message"
  <2>1. Lines(m) = B /\ Offset(m) = 0
    BY <1>1, <1>3 DEF Lines, Offset
  <2> QED BY <2>1, <1>2, <1>3
<1>4. CASE m.type = "gap"
  <2>1. Lines(m) = E \o B /\ Offset(m) = 1
    BY <1>1, <1>4 DEF Lines, Offset
  <2> HIDE DEF B, E, S
  <2>2. /\ Len(E \o B) = 4
        /\ \A i \in 1 .. 4 : (E \o B)[i] = IF i <= 1 THEN E[i] ELSE B[i - 1]
    <3>1. B \in Seq(S) /\ E \in Seq(S)
      BY <1>2
    <3>2. Len(E \o B) = Len(E) + Len(B)
      BY <3>1
    <3>3. \A i \in 1 .. Len(E) + Len(B) :
            (E \o B)[i] = IF i <= Len(E) THEN E[i] ELSE B[i - Len(E)]
      BY <3>1
    <3> QED BY <3>2, <3>3, <1>2
  <2>3. /\ (E \o B)[1] = E[1] /\ (E \o B)[2] = B[1]
        /\ (E \o B)[3] = B[2] /\ (E \o B)[4] = B[3]
    BY <2>2
  <2> QED BY <2>1, <2>2, <2>3, <1>2
<1> QED BY <1>3, <1>4

\* Feeding the next line of a message takes one After to the next; the blank line
\* returns the message and leaves a fresh parser.
LEMMA FeedAfter ==
    ASSUME NEW m, m.data \notin Broken, m.type \in {"message", "gap"},
           m.id \in Nat, None \notin Nat,
           NEW k \in Nat, k < Offset(m) + 3
    PROVE  /\ k + 1 < Offset(m) + 3 =>
                FeedLine(After(m, k), Lines(m)[k + 1]) =
                  [parser |-> After(m, k + 1), event |-> None]
           /\ k + 1 = Offset(m) + 3 =>
                FeedLine(After(m, k), Lines(m)[k + 1]) =
                  [parser |-> Fresh,
                   event |-> [type |-> m.type, id |-> m.id, data |-> m.data]]
<1> DEFINE o == Offset(m)
<1>1. o \in {0, 1} /\ (o = 0 <=> m.type = "message") /\ (o = 1 <=> m.type = "gap")
  BY DEF Offset
<1>2. /\ After(m, 0) = [type |-> "message", id |-> None, data |-> <<>>]
      /\ After(m, o) = [type |-> m.type, id |-> None, data |-> <<>>]
      /\ After(m, o + 1) = [type |-> m.type, id |-> m.id, data |-> <<>>]
      /\ After(m, o + 2) = [type |-> m.type, id |-> m.id, data |-> <<m.data>>]
  BY <1>1 DEF After, Offset
<1>3. /\ m.type = "gap" => Lines(m)[1] = Line("event", m.type)
      /\ Lines(m)[o + 1] = Line("id", m.id)
      /\ Lines(m)[o + 2] = Line("data", m.data)
      /\ Lines(m)[o + 3] = Blank
  BY LinesOf
<1> HIDE DEF o
<1>4. k \in 0 .. o + 2
  BY <1>1 DEF o
<1>5. CASE k < o
  <2>1. k = 0 /\ o = 1 /\ m.type = "gap"
    BY <1>1, <1>4, <1>5
  <2>2. FeedLine([type |-> "message", id |-> None, data |-> <<>>], Line("event", m.type)) =
          [parser |-> [type |-> m.type, id |-> None, data |-> <<>>], event |-> None]
    BY DEF FeedLine, Line
  <2>3. FeedLine(After(m, 0), Line("event", m.type)) = [parser |-> After(m, 1), event |-> None]
    BY <1>2, <2>1, <2>2
  <2> QED BY <2>1, <2>3, <1>3 DEF o
<1>6. CASE k = o
  <2>1. FeedLine([type |-> m.type, id |-> None, data |-> <<>>], Line("id", m.id)) =
          [parser |-> [type |-> m.type, id |-> m.id, data |-> <<>>], event |-> None]
    BY DEF FeedLine, Line
  <2>2. FeedLine(After(m, o), Line("id", m.id)) = [parser |-> After(m, o + 1), event |-> None]
    BY <1>2, <2>1
  <2> QED BY <2>2, <1>1, <1>3, <1>6 DEF o
<1>7. CASE k = o + 1
  <2>1. FeedLine([type |-> m.type, id |-> m.id, data |-> <<>>], Line("data", m.data)) =
          [parser |-> [type |-> m.type, id |-> m.id, data |-> <<m.data>>], event |-> None]
    <3>1. Append(<<>>, m.data) = <<m.data>>
      OBVIOUS
    <3>2. FeedLine([type |-> m.type, id |-> m.id, data |-> <<>>], Line("data", m.data)) =
            [parser |-> [type |-> m.type, id |-> m.id, data |-> Append(<<>>, m.data)],
             event |-> None]
      BY DEF FeedLine, Line
    <3> QED BY <3>1, <3>2
  <2>2. FeedLine(After(m, o + 1), Line("data", m.data)) =
          [parser |-> After(m, o + 2), event |-> None]
    BY <1>2, <2>1
  <2>3. k + 1 = o + 2
    BY <1>1, <1>7
  <2> QED BY <2>2, <2>3, <1>1, <1>3, <1>7 DEF o
<1>8. CASE k = o + 2
  <2>1. FeedLine([type |-> m.type, id |-> m.id, data |-> <<m.data>>], Blank) =
          [parser |-> Fresh, event |-> [type |-> m.type, id |-> m.id, data |-> m.data]]
    <3>1. Loads(<<m.data>>) = m.data /\ <<m.data>> # <<>> /\ m.id # None
      BY DEF Loads
    <3> QED BY <3>1 DEF FeedLine, Blank, Line, Dispatched
  <2>2. FeedLine(After(m, o + 2), Blank) =
          [parser |-> Fresh, event |-> [type |-> m.type, id |-> m.id, data |-> m.data]]
    BY <1>2, <2>1
  <2>3. k + 1 = o + 3
    BY <1>1, <1>8
  <2> QED BY <2>2, <2>3, <1>1, <1>3, <1>8 DEF o
<1> QED BY <1>1, <1>4, <1>5, <1>6, <1>7, <1>8

\* A fresh parser is one that was fed nothing, and a keep-alive leaves it so.
LEMMA FreshFacts ==
    /\ \A m : After(m, 0) = Fresh
    /\ FeedLine(FeedLine(Fresh, Comment).parser, Blank) = [parser |-> Fresh, event |-> None]
<1>1. ASSUME NEW m PROVE After(m, 0) = Fresh
  BY DEF After, Fresh, Offset
<1>2. FeedLine(Fresh, Comment) = [event |-> None, parser |-> Fresh]
  BY DEF FeedLine, Comment, Line
<1>3. FeedLine(Fresh, Blank) = [parser |-> Fresh, event |-> None]
  BY DEF FeedLine, Blank, Line, Fresh, Dispatched
<1> QED BY <1>1, <1>2, <1>3

-----------------------------------------------------------------------------
\* The listener starts at the first message with a fresh parser.
LEMMA IInvInit == ASSUME Readable PROVE Init => IInv
<1> SUFFICES ASSUME Init PROVE IInv
  OBVIOUS
<1>1. Delivered /\ yielded \in Seq(Event)
  BY DEF Init, Delivered
<1>2. parser = Fresh /\ at = 1 /\ fed = 0 /\ cursor = 0 /\ status = "reading"
  BY DEF Init
<1>3. at <= Len(Messages) => fed < Offset(Messages[at]) + 3
  BY <1>2 DEF Offset
<1> QED BY <1>1, <1>2, <1>3, FreshFacts DEF IInv

\* Every line, keep-alive and cut preserves the invariant.
LEMMA IInvNext == ASSUME Readable PROVE IInv /\ [Next]_vars => IInv'
<1> SUFFICES ASSUME IInv, [Next]_vars PROVE IInv'
  OBVIOUS
<1>1. CASE Feed
  <2> DEFINE m == Messages[at]
  <2>1. /\ status = "reading" /\ at = cursor + 1 /\ at \in 1 .. Len(Messages)
        /\ fed \in Nat /\ fed < Offset(m) + 3 /\ parser = After(m, fed)
    BY <1>1 DEF Feed, IInv, Readable
  <2>2. /\ m = [id |-> at, type |-> m.type, data |-> m.data]
        /\ m.type \in {"message", "gap"} /\ m.data \notin Broken
        /\ m.data # Fragment /\ m.data \in Payloads
    BY <2>1 DEF Readable, Payloads
  <2>3. m.id = at /\ m.id \in Nat
    BY <2>1, <2>2
  <2> HIDE DEF m
  <2>4. /\ Len(Lines(m)) = Offset(m) + 3
        /\ fed + 1 < Offset(m) + 3 =>
             FeedLine(parser, Lines(m)[fed + 1]) =
               [parser |-> After(m, fed + 1), event |-> None]
        /\ fed + 1 = Offset(m) + 3 =>
             FeedLine(parser, Lines(m)[fed + 1]) =
               [parser |-> Fresh,
                event |-> [type |-> m.type, id |-> m.id, data |-> m.data]]
    BY <2>1, <2>2, <2>3, LinesOf, FeedAfter DEF Readable
  <2>5. /\ parser' = FeedLine(parser, Lines(m)[fed + 1]).parser
        /\ Dispatch(FeedLine(parser, Lines(m)[fed + 1]).event)
        /\ at' = IF fed + 1 = Len(Lines(m)) THEN at + 1 ELSE at
        /\ fed' = IF fed + 1 = Len(Lines(m)) THEN 0 ELSE fed + 1
    BY <1>1 DEF Feed, m
  <2>6. Offset(m) \in Nat
    BY DEF Offset
  <2>7. CASE fed + 1 < Offset(m) + 3
    <3>1. /\ parser' = After(m, fed + 1) /\ at' = at /\ fed' = fed + 1
          /\ UNCHANGED <<cursor, yielded, status>>
      BY <2>4, <2>5, <2>6, <2>7, <2>1 DEF Dispatch
    <3> QED BY <3>1, <2>1, <2>7 DEF IInv, Delivered, m
  <2>8. CASE fed + 1 = Offset(m) + 3
    <3> DEFINE e == [type |-> m.type, id |-> m.id, data |-> m.data]
    <3>1. /\ parser' = Fresh /\ at' = at + 1 /\ fed' = 0
          /\ Dispatch(e)
      BY <2>4, <2>5, <2>8
    <3>2. e # None /\ e.data = m.data /\ e.type = m.type /\ e.id = at
      BY <2>3 DEF Readable
    <3> HIDE DEF e
    <3>3. CASE m.type = "gap"
      <4>1. status' = "trimmed" /\ UNCHANGED <<cursor, yielded>>
        BY <3>1, <3>2, <3>3, <2>2 DEF Dispatch
      <4> QED BY <4>1 DEF IInv, Delivered
    <3>4. CASE m.type = "message"
      <4> DEFINE y == [id |-> at, data |-> m.data]
      <4>1. /\ cursor' = at /\ UNCHANGED status
            /\ yielded' = Append(yielded, y)
        BY <3>1, <3>2, <3>4, <2>2 DEF Dispatch
      <4>2. y \in Event /\ y = [id |-> at, data |-> Messages[at].data]
        BY <2>1, <2>2, <2>3 DEF Event, m
      <4> HIDE DEF y
      <4>3. yielded \in Seq(Event) /\ Len(yielded) = cursor /\ cursor \in Nat
        BY DEF IInv, Delivered
      <4>4. /\ yielded' \in Seq(Event) /\ Len(yielded') = at
            /\ \A i \in 1 .. at : yielded'[i] = IF i = at THEN y ELSE yielded[i]
        BY <4>1, <4>2, <4>3, <2>1
      <4>5. \A i \in 1 .. cursor : yielded[i] = [id |-> i, data |-> Messages[i].data]
        BY <4>3 DEF IInv, Delivered
      <4>6. Delivered'
        BY <4>1, <4>2, <4>3, <4>4, <4>5, <2>1 DEF Delivered
      <4>7. at' <= Len(Messages) =>
              fed' < Offset(Messages[at']) + 3 /\ parser' = After(Messages[at'], fed')
        BY <3>1, FreshFacts DEF Offset
      <4> QED BY <4>1, <4>3, <4>4, <4>6, <4>7, <3>1, <2>1, <2>3 DEF IInv
    <3> QED BY <3>3, <3>4, <2>2
  <2> QED BY <2>1, <2>6, <2>7, <2>8
<1>2. CASE KeepAlive
  <2>1. parser = Fresh
    BY <1>2, FreshFacts DEF KeepAlive, IInv, Readable
  <2>2. parser' = Fresh /\ UNCHANGED <<at, fed, cursor, yielded, status>>
    BY <1>2, <2>1, FreshFacts DEF KeepAlive, Dispatch
  <2> QED BY <2>1, <2>2 DEF IInv, Delivered
<1>3. CASE Cut
  <2>1. /\ at' = cursor + 1 /\ fed' = 0 /\ parser' = Fresh
        /\ UNCHANGED <<cursor, yielded, status>>
    BY <1>3 DEF Cut
  <2>2. at' <= Len(Messages) =>
          fed' < Offset(Messages[at']) + 3 /\ parser' = After(Messages[at'], fed')
    BY <2>1, FreshFacts DEF Offset
  <2> QED BY <2>1, <2>2 DEF IInv, Delivered
<1>4. CASE UNCHANGED vars
  BY <1>4 DEF vars, IInv, Delivered
<1> QED BY <1>1, <1>2, <1>3, <1>4 DEF Next

\* A listener whose messages hold no line separator is never ended by a parse error,
\* and is handed exactly the messages, in order, through every cut and keep-alive.
THEOREM ReadBack == ASSUME Readable PROVE Spec => [](Delivered /\ EveryPayloadReadable)
<1>1. IInv => Delivered /\ EveryPayloadReadable
  BY DEF IInv, EveryPayloadReadable
<1> QED BY <1>1, IInvInit, IInvNext, PTL DEF Spec
=============================================================================
