--------------------------- MODULE ProviderProofs ---------------------------
(***************************************************************************)
(* The provider, for chains and pages of any size: the pages of a history  *)
(* fit together and end with the whole of it (HistoryPaging); and what a   *)
(* caller may conclude from the outcome of a single call (RpcClient).      *)
(***************************************************************************)
EXTENDS HistoryPaging, RpcClient, SequenceTheorems, TLAPS

-----------------------------------------------------------------------------
(* History: what was collected is a run of blocks *)

Collected == Len(collected)

\* From block 1 upwards, or from the last block of the range downwards.
Run ==
    \A i \in 1 .. Collected :
        collected[i] = IF direction = "asc" THEN i ELSE last - i + 1

\* The range, once it is known, covers what was collected.
Ranged ==
    /\ last = None => collected = <<>>
    /\ last # None => Collected <= last

\* A cursor names the block next to the run.
AtCursor ==
    /\ cursor # None /\ pc # "ended" =>
         /\ last # None /\ cursor.last = last /\ Collected < last
         /\ cursor.next = IF direction = "asc" THEN Collected + 1 ELSE last - Collected
    /\ cursor = None /\ pc \in {"v2", "fallback"} => last = None

\* Only a reader of the latest first, without a cursor, falls back.
FallsBack == pc = "fallback" => cursor = None /\ direction = "desc"

\* Pages before the current one were full, and their range is kept.
AtPage ==
    /\ method = "page" => direction = "desc" /\ cursor = None
    /\ pc = "page" =>
         /\ method = "page"
         /\ page <= Collected /\ Collected = page * PageSize
         /\ last = None => page = 0
         /\ last # None => toBlock = last /\ Collected < last
    /\ pc \in {"v2", "fallback"} => method = "cursor"
    /\ toBlock # None => toBlock <= head

Ended == pc = "ended" /\ ~ sorry => last # None /\ Collected = last

HistoryInv == TypeOK /\ Run /\ Ranged /\ AtCursor /\ FallsBack /\ AtPage /\ Ended

\* A page appended to the run of a reader that goes up ...
LEMMA AppendAscending ==
    ASSUME NEW from \in Nat, NEW n \in Nat, NEW done \in Seq(Blocks),
           from = Len(done) + 1, from + n - 1 <= MaxHead
    PROVE  /\ done \o Ascending(from, n) \in Seq(Blocks)
           /\ Len(done \o Ascending(from, n)) = Len(done) + n
           /\ \A i \in 1 .. Len(done) + n :
                (done \o Ascending(from, n))[i] = IF i <= Len(done) THEN done[i] ELSE i
<1> DEFINE more == Ascending(from, n)
<1>1. more \in [1 .. n -> Blocks]
  BY PagingAssumption DEF Ascending, Blocks
<1>2. more \in Seq(Blocks) /\ Len(more) = n
  BY <1>1
<1>3. \A i \in 1 .. n : more[i] = from + i - 1
  BY DEF Ascending
<1> HIDE DEF more
<1>4. Len(done) \in Nat
  BY LenProperties
<1>5. /\ done \o more \in Seq(Blocks)
      /\ Len(done \o more) = Len(done) + n
      /\ \A i \in 1 .. Len(done) + n :
           (done \o more)[i] = IF i <= Len(done) THEN done[i] ELSE more[i - Len(done)]
  BY <1>2, ConcatProperties
<1>6. \A i \in 1 .. Len(done) + n : i > Len(done) => more[i - Len(done)] = i
  BY <1>3, <1>4
<1> QED
  BY <1>4, <1>5, <1>6 DEF more

\* ... and of one that goes down.
LEMMA AppendDescending ==
    ASSUME NEW from \in Nat, NEW n \in Nat, NEW done \in Seq(Blocks),
           from <= MaxHead, n <= from
    PROVE  /\ done \o Descending(from, n) \in Seq(Blocks)
           /\ Len(done \o Descending(from, n)) = Len(done) + n
           /\ \A i \in 1 .. Len(done) + n :
                (done \o Descending(from, n))[i] =
                  IF i <= Len(done) THEN done[i] ELSE from + Len(done) - i + 1
<1> DEFINE more == Descending(from, n)
<1>1. more \in [1 .. n -> Blocks]
  BY PagingAssumption DEF Descending, Blocks
<1>2. more \in Seq(Blocks) /\ Len(more) = n
  BY <1>1
<1>3. \A i \in 1 .. n : more[i] = from - i + 1
  BY DEF Descending
<1> HIDE DEF more
<1>4. Len(done) \in Nat
  BY LenProperties
<1>5. /\ done \o more \in Seq(Blocks)
      /\ Len(done \o more) = Len(done) + n
      /\ \A i \in 1 .. Len(done) + n :
           (done \o more)[i] = IF i <= Len(done) THEN done[i] ELSE more[i - Len(done)]
  BY <1>2, ConcatProperties
<1>6. \A i \in 1 .. Len(done) + n :
         i > Len(done) => more[i - Len(done)] = from + Len(done) - i + 1
  BY <1>3, <1>4
<1> QED
  BY <1>4, <1>5, <1>6 DEF more

LEMMA HistoryInit == Init => HistoryInv
<1> SUFFICES ASSUME Init
             PROVE  HistoryInv
  OBVIOUS
<1>1. collected = <<>> /\ Collected = 0 /\ page = 0 /\ last = None /\ cursor = None
  BY DEF Init, Collected
<1>2. MaxHead \in Nat /\ PageSize \in Nat \ {0}
  BY PagingAssumption
<1>3. TypeOK
  <2>1. head \in 0 .. MaxHead /\ toBlock \in {None} \cup 0 .. MaxHead
    BY <1>2 DEF Init
  <2>2. collected \in Seq(Blocks)
    BY <1>1
  <2>3. page \in 0 .. MaxHead + 1
    BY <1>1, <1>2
  <2> QED
    BY <1>1, <2>1, <2>2, <2>3 DEF Init, TypeOK
<1>4. Run
  BY <1>1 DEF Run
<1>5. Ranged /\ AtCursor
  BY <1>1 DEF Ranged, AtCursor
<1>6. FallsBack /\ Ended
  BY DEF Init, FallsBack, Ended
<1>7. AtPage
  <2>1. method = "page" => direction = "desc" /\ cursor = None
    BY <1>1 DEF Init
  <2>2. pc = "page" => method = "page"
    BY DEF Init
  <2>3. pc \in {"v2", "fallback"} => method = "cursor"
    BY DEF Init
  <2>4. Collected = page * PageSize /\ page <= Collected
    BY <1>1, <1>2
  <2>5. toBlock # None => toBlock <= head
    BY PagingAssumption DEF Init
  <2> QED
    BY <1>1, <2>1, <2>2, <2>3, <2>4, <2>5 DEF AtPage
<1> QED
  BY <1>3, <1>4, <1>5, <1>6, <1>7 DEF HistoryInv

LEMMA TopInRange ==
    ASSUME TypeOK, AtPage
    PROVE  Top \in 0 .. MaxHead /\ Top <= head
BY PagingAssumption DEF TypeOK, AtPage, Top

LEMMA CursorMoves ==
    ASSUME NEW a, NEW b, NEW c
    PROVE  [[next |-> a, last |-> b] EXCEPT !.next = c] = [next |-> c, last |-> b]
  OBVIOUS

\* A page of V2: where it starts, how long it is, and what is left after it.
LEMMA V2Keeps ==
    ASSUME HistoryInv, V2Answered
    PROVE  HistoryInv'
<1> DEFINE at == IF cursor # None THEN cursor
                 ELSE [next |-> IF direction = "asc" THEN 1 ELSE Top, last |-> Top]
           left == IF direction = "asc" THEN at.last - at.next + 1 ELSE at.next
           n == Smallest(PageSize, left)
           beyond == IF direction = "asc" THEN at.next + n ELSE at.next - n
           items == IF direction = "asc" THEN Ascending(at.next, n)
                                         ELSE Descending(at.next, n)
<1> USE DEF HistoryInv
<1>1. MaxHead \in Nat /\ PageSize \in Nat \ {0} /\ None \notin Int
  BY PagingAssumption
<1>2. /\ pc = "v2" /\ method = "cursor" /\ direction \in {"asc", "desc"}
      /\ Top \in 0 .. MaxHead
  BY TopInRange DEF V2Answered, AtPage, TypeOK
<1>3. Collected \in Nat /\ collected \in Seq(Blocks) /\ Collected = Len(collected)
  BY LenProperties DEF Collected, TypeOK
<1>4. at.last \in 0 .. MaxHead /\ Collected <= at.last
  <2>1. CASE cursor # None
    <3>1. cursor \in Cursors /\ last # None /\ cursor.last = last /\ Collected < last
      BY <1>2, <2>1 DEF AtCursor, TypeOK
    <3>2. cursor.last \in 0 .. MaxHead
      BY <3>1 DEF Cursors
    <3> QED
      BY <1>3, <2>1, <3>1, <3>2
  <2>2. CASE cursor = None
    <3>1. last = None /\ collected = <<>>
      BY <1>2, <2>2 DEF AtCursor, Ranged
    <3> QED
      BY <1>2, <1>3, <2>2, <3>1
  <2> QED
    BY <2>1, <2>2
<1>5. at.next = IF direction = "asc" THEN Collected + 1 ELSE at.last - Collected
  <2>1. CASE cursor # None
    BY <1>2, <2>1 DEF AtCursor
  <2>2. CASE cursor = None
    <3>1. last = None /\ collected = <<>>
      BY <1>2, <2>2 DEF AtCursor, Ranged
    <3> QED
      BY <1>2, <1>3, <2>2, <3>1
  <2> QED
    BY <2>1, <2>2
<1>6. last # None => last = at.last
  <2>1. CASE cursor # None
    BY <1>2, <2>1 DEF AtCursor
  <2>2. CASE cursor = None
    BY <1>2, <2>2 DEF AtCursor
  <2> QED
    BY <2>1, <2>2
<1>7. at.last \in 0 .. MaxHead /\ at = [next |-> at.next, last |-> at.last]
  BY <1>4 DEF TypeOK, Cursors
<1>8. /\ collected' = collected \o items
      /\ last' = IF last = None THEN at.last ELSE last
      /\ \/ /\ n < left
            /\ cursor' = [next |-> beyond, last |-> at.last]
            /\ pc' = pc
         \/ n = left /\ pc' = "ended" /\ cursor' = cursor
      /\ UNCHANGED <<head, query, toBlock, page, sorry>>
  <2>1. [at EXCEPT !.next = IF direction = "asc" THEN @ + n ELSE @ - n]
          = [next |-> beyond, last |-> at.last]
    <3> HIDE DEF at, n
    <3>1. [[next |-> at.next, last |-> at.last] EXCEPT !.next = beyond]
            = [next |-> beyond, last |-> at.last]
      BY CursorMoves
    <3>2. at = [next |-> at.next, last |-> at.last]
      BY <1>7
    <3> QED
      BY <3>1, <3>2, Zenon
  <2>2. \/ /\ n < left
           /\ cursor' = [at EXCEPT !.next = IF direction = "asc" THEN @ + n ELSE @ - n]
           /\ pc' = pc
        \/ n = left /\ pc' = "ended" /\ cursor' = cursor
    BY Zenon DEF V2Answered
  <2>3. /\ collected' = collected \o items
        /\ last' = IF last = None THEN at.last ELSE last
        /\ UNCHANGED <<head, query, toBlock, page, sorry>>
    BY Zenon DEF V2Answered, Report
  <2> HIDE DEF at, left, n, items
  <2> QED
    BY <2>1, <2>2, <2>3, Zenon
<1> HIDE DEF at
<1>9. left = at.last - Collected /\ left \in Nat
  BY <1>2, <1>3, <1>4, <1>5
<1> HIDE DEF left
<1>10. n \in Nat /\ n <= left /\ (n < left => n = PageSize)
  BY <1>1, <1>9 DEF Smallest
<1> HIDE DEF n
<1>11. /\ collected' \in Seq(Blocks)
       /\ Collected' = Collected + n
       /\ \A i \in 1 .. Collected + n :
            collected'[i] = IF i <= Collected THEN collected[i]
                            ELSE IF direction = "asc" THEN i ELSE at.last - i + 1
  <2>1. CASE direction = "asc"
    <3>1. at.next \in Nat /\ at.next = Len(collected) + 1 /\ at.next + n - 1 <= MaxHead
      BY <1>1, <1>3, <1>4, <1>5, <1>9, <1>10, <2>1
    <3>2. items = Ascending(at.next, n)
      BY <2>1
    <3>3. /\ collected' \in Seq(Blocks)
          /\ Collected' = Collected + n
          /\ \A i \in 1 .. Collected + n :
               collected'[i] = IF i <= Collected THEN collected[i] ELSE i
      BY <1>3, <1>8, <1>10, <3>1, <3>2, AppendAscending DEF Collected
    <3> QED
      BY <2>1, <3>3
  <2>2. CASE direction = "desc"
    <3>1. at.next \in Nat /\ at.next <= MaxHead /\ n <= at.next
      BY <1>1, <1>3, <1>4, <1>5, <1>9, <1>10, <2>2
    <3>2. items = Descending(at.next, n)
      BY <2>2
    <3>3. \A i \in 1 .. Collected + n : at.next + Collected - i + 1 = at.last - i + 1
      BY <1>3, <1>4, <1>5, <2>2
    <3>4. /\ collected' \in Seq(Blocks)
          /\ Collected' = Collected + n
          /\ \A i \in 1 .. Collected + n :
               collected'[i] = IF i <= Collected THEN collected[i]
                               ELSE at.next + Collected - i + 1
      <4>1. /\ collected \o Descending(at.next, n) \in Seq(Blocks)
            /\ Len(collected \o Descending(at.next, n)) = Len(collected) + n
            /\ \A i \in 1 .. Len(collected) + n :
                 (collected \o Descending(at.next, n))[i] =
                   IF i <= Len(collected) THEN collected[i]
                                          ELSE at.next + Len(collected) - i + 1
        BY <1>3, <1>10, <3>1, AppendDescending
      <4>2. collected' = collected \o Descending(at.next, n)
        BY <1>8, <3>2
      <4> QED
        BY <4>1, <4>2, Zenon DEF Collected
    <3> QED
      BY <2>2, <3>3, <3>4
  <2> QED
    BY <1>2, <2>1, <2>2
<1> HIDE DEF items
<1>12. last' = at.last /\ last' # None
  BY <1>1, <1>4, <1>6, <1>8
<1>13. Run'
  <2>1. \A i \in 1 .. Collected + n : i <= Collected =>
           collected[i] = IF direction = "asc" THEN i ELSE at.last - i + 1
    <3>1. CASE last = None
      <4>1. Collected = 0
        BY <3>1 DEF Ranged, Collected
      <4> QED
        BY <4>1
    <3>2. CASE last # None
      BY <1>3, <1>6, <1>10, <3>2 DEF Run
    <3> QED
      BY <3>1, <3>2
  <2>2. direction' = direction
    BY <1>8 DEF query
  <2> QED
    BY <1>11, <1>12, <2>1, <2>2 DEF Run
<1>14. Ranged'
  BY <1>3, <1>4, <1>9, <1>10, <1>11, <1>12 DEF Ranged
<1>15. CASE n = left /\ pc' = "ended" /\ cursor' = cursor
  <2>1. Collected' = last'
    BY <1>3, <1>4, <1>9, <1>11, <1>12, <1>15
  <2>2. TypeOK'
    BY <1>4, <1>8, <1>11, <1>12, <1>15 DEF TypeOK, query
  <2> QED
    BY <1>2, <1>8, <1>12, <1>13, <1>14, <1>15, <2>1, <2>2
       DEF AtCursor, FallsBack, AtPage, Ended, query
<1>16. CASE /\ n < left
            /\ cursor' = [next |-> beyond, last |-> at.last]
            /\ pc' = pc
  <2> DEFINE next == IF direction = "asc" THEN Collected + n + 1
                                          ELSE at.last - (Collected + n)
  <2>1. cursor' = [next |-> next, last |-> at.last]
    <3>1. next = beyond
      BY <1>3, <1>4, <1>5, <1>10
    <3> QED
      BY <1>16, <3>1
  <2>2. Collected' < last'
    BY <1>3, <1>4, <1>9, <1>10, <1>11, <1>12, <1>16
  <2>3. next \in 0 .. MaxHead + 1
    BY <1>1, <1>3, <1>4, <1>9, <1>10, <1>16
  <2>4. next = IF direction' = "asc" THEN Collected' + 1 ELSE last' - Collected'
    BY <1>8, <1>11, <1>12 DEF query
  <2> HIDE DEF next
  <2>5. cursor' \in Cursors /\ cursor'.last = last' /\ cursor'.next = next
    BY <1>4, <1>12, <2>1, <2>3 DEF Cursors
  <2>6. cursor' # None
    BY <2>5, PagingAssumption
  <2>7. TypeOK'
    BY <1>4, <1>8, <1>11, <1>12, <1>16, <2>5 DEF TypeOK, query
  <2>8. AtCursor'
    BY <1>12, <2>2, <2>4, <2>5, <2>6 DEF AtCursor
  <2> QED
    BY <1>2, <1>8, <1>13, <1>14, <1>16, <2>7, <2>8
       DEF FallsBack, AtPage, Ended, query
<1> QED
  BY <1>8, <1>15, <1>16

\* The fallback asks once, for the first page.
LEMMA FallbackKeeps ==
    ASSUME HistoryInv, FallbackAnswered
    PROVE  HistoryInv'
<1> DEFINE n == Smallest(PageSize, Top)
<1> USE DEF HistoryInv
<1>1. MaxHead \in Nat /\ PageSize \in Nat \ {0} /\ None \notin Int
  BY PagingAssumption
<1>2. /\ pc = "fallback" /\ method = "cursor" /\ direction = "desc" /\ cursor = None
      /\ Top \in 0 .. MaxHead
  BY TopInRange DEF FallbackAnswered, AtPage, FallsBack
<1>3. last = None /\ collected = <<>> /\ Len(collected) = 0
  BY <1>2 DEF AtCursor, Ranged
<1>4. /\ collected' = collected \o Descending(Top, n)
      /\ last' = Top
      /\ sorry' = HasMore(n, Top)
      /\ pc' = "ended"
      /\ UNCHANGED <<head, query, toBlock, cursor, page>>
  BY <1>3 DEF FallbackAnswered, Report
<1>5. n \in Nat /\ n <= Top
  BY <1>1, <1>2 DEF Smallest
<1> HIDE DEF n
<1>6. /\ collected' \in Seq(Blocks)
      /\ Collected' = n
      /\ \A i \in 1 .. n : collected'[i] = Top - i + 1
  <2>1. /\ collected \o Descending(Top, n) \in Seq(Blocks)
        /\ Len(collected \o Descending(Top, n)) = Len(collected) + n
        /\ \A i \in 1 .. Len(collected) + n :
             (collected \o Descending(Top, n))[i] =
               IF i <= Len(collected) THEN collected[i] ELSE Top + Len(collected) - i + 1
    <3>1. collected \in Seq(Blocks) /\ Top \in Nat /\ Top <= MaxHead
      BY <1>1, <1>2 DEF TypeOK
    <3> QED
      BY <1>5, <3>1, AppendDescending
  <2>2. \A i \in 1 .. n : collected'[i] = Top - i + 1
    BY <1>2, <1>3, <1>4, <1>5, <2>1
  <2> QED
    BY <1>3, <1>4, <1>5, <2>1, <2>2 DEF Collected
<1>7. last' # None /\ direction' = "desc" /\ method' = "cursor" /\ cursor' = None
  BY <1>1, <1>2, <1>4 DEF query
<1>8. TypeOK'
  BY <1>1, <1>2, <1>4, <1>6 DEF TypeOK, query, HasMore
<1>9. Run' /\ Ranged'
  BY <1>2, <1>4, <1>5, <1>6, <1>7 DEF Run, Ranged
<1>10. Ended'
  <2>1. ~ sorry' => n = Top
    <3> SUFFICES ASSUME n # Top
                 PROVE  sorry'
      OBVIOUS
    <3>1. (n < Top) = TRUE
      BY <1>2, <1>5
    <3> QED
      BY <1>4, <3>1, Zenon DEF HasMore
  <2> QED
    BY <1>4, <1>6, <1>7, <2>1 DEF Ended
<1> QED
  BY <1>4, <1>7, <1>8, <1>9, <1>10 DEF AtCursor, FallsBack, AtPage

\* A page by number starts where the pages before it end: all of them were full.
LEMMA PageKeeps ==
    ASSUME HistoryInv, PageAnswered
    PROVE  HistoryInv'
<1> DEFINE first == Top - page * PageSize
           n == IF first < 0 THEN 0 ELSE Smallest(PageSize, first)
<1> USE DEF HistoryInv
<1>1. MaxHead \in Nat /\ PageSize \in Nat \ {0} /\ None \notin Int
  BY PagingAssumption
<1>2. /\ pc = "page" /\ method = "page" /\ direction = "desc" /\ cursor = None
      /\ page \in Nat /\ page <= Collected /\ Collected = page * PageSize
  BY DEF PageAnswered, AtPage, TypeOK
<1>3. Top \in 0 .. MaxHead /\ Top <= head
  BY TopInRange
<1>4. Collected \in Nat /\ collected \in Seq(Blocks) /\ Collected = Len(collected)
  BY LenProperties DEF Collected, TypeOK
<1>5. (last # None => last = Top) /\ Collected <= Top
  <2>1. CASE last # None
    BY <1>1, <1>2, <1>3, <1>4, <2>1 DEF AtPage, Top, TypeOK
  <2>2. CASE last = None
    BY <1>3, <1>4, <2>2 DEF Ranged
  <2> QED
    BY <2>1, <2>2
<1>6. /\ collected' = collected \o Descending(first, n)
      /\ last' = Top
      /\ pc' = IF Len(collected') < Top THEN "page" ELSE "ended"
      /\ toBlock' = Top
      /\ page' = page + 1
      /\ UNCHANGED <<head, query, cursor, sorry>>
  BY <1>5 DEF PageAnswered, Report
<1>7. first = Top - Collected /\ first \in Nat /\ first <= MaxHead
  <2>1. first = Top - Collected
    BY <1>2
  <2> HIDE DEF first
  <2> QED
    BY <1>1, <1>3, <1>4, <1>5, <2>1
<1>8. (page + 1) * PageSize = Collected + PageSize
  BY <1>1, <1>2
<1> HIDE DEF first
<1>9. n \in Nat /\ n <= first /\ (n < first => n = PageSize)
  BY <1>1, <1>7 DEF Smallest
<1> HIDE DEF n
<1>10. /\ collected' \in Seq(Blocks)
       /\ Collected' = Collected + n
       /\ \A i \in 1 .. Collected + n :
            collected'[i] = IF i <= Collected THEN collected[i] ELSE Top - i + 1
  <2>1. /\ collected \o Descending(first, n) \in Seq(Blocks)
        /\ Len(collected \o Descending(first, n)) = Len(collected) + n
        /\ \A i \in 1 .. Len(collected) + n :
             (collected \o Descending(first, n))[i] =
               IF i <= Len(collected) THEN collected[i]
                                      ELSE first + Len(collected) - i + 1
    <3>1. first \in Nat /\ first <= MaxHead /\ n \in Nat /\ n <= first
      BY <1>7, <1>9
    <3>2. collected \in Seq(Blocks)
      BY <1>4
    <3> QED
      BY <3>1, <3>2, AppendDescending
  <2>2. \A i \in 1 .. Collected + n : first + Collected - i + 1 = Top - i + 1
    BY <1>3, <1>4, <1>7
  <2> QED
    BY <1>4, <1>6, <2>1, <2>2 DEF Collected
<1>11. last' # None /\ direction' = "desc" /\ method' = "page" /\ cursor' = None
  BY <1>1, <1>2, <1>3, <1>6 DEF query
<1>12. Run'
  <2>1. \A i \in 1 .. Collected + n : i <= Collected => collected[i] = Top - i + 1
    <3>1. CASE last = None
      <4>1. Collected = 0
        BY <3>1 DEF Ranged, Collected
      <4> QED
        BY <4>1
    <3>2. CASE last # None
      BY <1>2, <1>4, <1>5, <1>9, <3>2 DEF Run
    <3> QED
      BY <3>1, <3>2
  <2> QED
    BY <1>6, <1>10, <1>11, <2>1 DEF Run
<1>13. Ranged'
  BY <1>3, <1>4, <1>6, <1>7, <1>9, <1>10, <1>11 DEF Ranged
<1>14. page' \in 0 .. MaxHead + 1
  <2>1. page \in Nat /\ page <= Collected /\ page' = page + 1
    BY <1>2, <1>6
  <2>2. Collected \in Nat /\ Collected <= MaxHead
    BY <1>1, <1>3, <1>4, <1>5
  <2> QED
    BY <1>1, <2>1, <2>2
<1>15. pc' = IF Collected' < Top THEN "page" ELSE "ended"
  BY <1>6 DEF Collected
<1>16. TypeOK'
  BY <1>1, <1>3, <1>6, <1>10, <1>14, <1>15 DEF TypeOK, query
<1>17. AtPage'
  <2>1. CASE pc' = "page"
    <3>1. Collected' < Top
      BY <1>15, <2>1
    <3>2. n = PageSize
      BY <1>3, <1>4, <1>7, <1>9, <1>10, <3>1
    <3>3. Collected' = page' * PageSize /\ page' <= Collected'
      <4>1. page' * PageSize = Collected + PageSize
        BY <1>6, <1>8
      <4>2. Collected' = Collected + PageSize
        BY <1>10, <3>2
      <4>3. page' <= Collected'
        <5>1. page \in Nat /\ page <= Collected /\ page' = page + 1
          BY <1>2, <1>6, Zenon
        <5> QED
          BY <1>1, <1>4, <4>2, <5>1
      <4> QED
        BY <4>1, <4>2, <4>3, Zenon
    <3> QED
      BY <1>3, <1>6, <1>11, <2>1, <3>1, <3>3 DEF AtPage
  <2>2. CASE pc' # "page"
    BY <1>3, <1>6, <1>11, <1>15, <2>2 DEF AtPage
  <2> QED
    BY <2>1, <2>2
<1>18. Ended'
  BY <1>3, <1>4, <1>6, <1>7, <1>9, <1>10, <1>11, <1>15 DEF Ended
<1> QED
  BY <1>11, <1>12, <1>13, <1>15, <1>16, <1>17, <1>18 DEF AtCursor, FallsBack

\* An error ends the reading or sets off the fallback; a block changes no range.
LEMMA OthersKeep ==
    ASSUME HistoryInv, MethodNotFound \/ RequestFails \/ NewBlock \/ UNCHANGED vars
    PROVE  HistoryInv'
<1> USE DEF HistoryInv
<1>1. UNCHANGED <<query, toBlock, cursor, page, collected, last, sorry>>
  BY DEF MethodNotFound, RequestFails, NewBlock, vars
<1>2. /\ head' \in 0 .. MaxHead /\ (toBlock # None => toBlock <= head')
      /\ \/ pc' = pc
         \/ pc' = "failed" /\ pc # "ended"
         \/ pc = "v2" /\ pc' = "fallback" /\ cursor = None /\ direction = "desc"
  BY PagingAssumption
     DEF MethodNotFound, RequestFails, NewBlock, vars, TypeOK, AtPage
<1>3. Run' /\ Ranged' /\ Collected' = Collected
  BY <1>1 DEF Run, Ranged, Collected, query
<1>4. TypeOK'
  BY <1>1, <1>2 DEF TypeOK, query
<1>5. AtCursor' /\ FallsBack' /\ Ended'
  <2>1. direction' = direction /\ cursor' = cursor /\ last' = last /\ sorry' = sorry
    BY <1>1 DEF query
  <2>2. AtCursor'
    BY <1>2, <1>3, <2>1 DEF AtCursor
  <2>3. FallsBack'
    BY <1>2, <2>1 DEF FallsBack
  <2>4. pc' = "ended" => pc = "ended"
    BY <1>2
  <2>5. Ended'
    BY <1>3, <2>1, <2>4, Zenon DEF Ended
  <2> QED
    BY <2>2, <2>3, <2>5
<1>6. AtPage'
  BY <1>1, <1>2, <1>3 DEF AtPage, query
<1> QED
  BY <1>3, <1>4, <1>5, <1>6

LEMMA HistoryStep == HistoryInv /\ [Next]_vars => HistoryInv'
  BY V2Keeps, FallbackKeeps, PageKeeps, OthersKeep DEF Next

LEMMA HistoryInvariant == Spec => []HistoryInv
<1> QED
  BY HistoryInit, HistoryStep, PTL DEF Spec

\* Every variable of a reader keeps its type, pages and cursors within the bounds
\* (getTransactionsByAddress and getTransactionsByAddressV2, src/src/provider.ts).
THEOREM HistoryTypes == Spec => []TypeOK
<1>1. HistoryInv => TypeOK
  BY DEF HistoryInv
<1> QED
  BY <1>1, HistoryInvariant, PTL

\* The pages fit together, in the direction asked for, without a gap and with nothing
\* twice, however the chain grows and whichever nodes answer.
THEOREM HistoryIsContiguous == Spec => []Contiguous
<1>1. HistoryInv => Contiguous
  <2> SUFFICES ASSUME HistoryInv, NEW i \in 1 .. Len(collected) - 1
               PROVE  collected[i + 1] = IF direction = "asc" THEN collected[i] + 1
                                                              ELSE collected[i] - 1
    BY DEF Contiguous
  <2>1. Len(collected) \in Nat /\ Collected = Len(collected)
    BY LenProperties DEF HistoryInv, TypeOK, Collected
  <2>2. i \in 1 .. Collected /\ i + 1 \in 1 .. Collected /\ i + 1 \in Int /\ i \in Int
    BY <2>1
  <2>3. last \in Int
    BY <2>2 DEF HistoryInv, Ranged, Collected, TypeOK
  <2> QED
    BY <2>2, <2>3 DEF HistoryInv, Run
<1> QED
  BY <1>1, HistoryInvariant, PTL

\* A reader that ends without being told that there is more has the whole history
\* of the range.
THEOREM HistoryIsWhole == Spec => []EndMeansAll
<1>1. HistoryInv => EndMeansAll
  <2> SUFFICES ASSUME HistoryInv, pc = "ended", ~ sorry
               PROVE  {collected[i] : i \in 1 .. Len(collected)} = 1 .. last
    BY DEF EndMeansAll
  <2>1. Collected = last /\ last \in Nat /\ Collected = Len(collected)
    BY DEF HistoryInv, Ended, TypeOK, Collected
  <2>2. \A i \in 1 .. last : collected[i] = IF direction = "asc" THEN i ELSE last - i + 1
    BY <2>1 DEF HistoryInv, Run
  <2>3. \A b \in 1 .. last : \E i \in 1 .. last : collected[i] = b
    <3> SUFFICES ASSUME NEW b \in 1 .. last
                 PROVE  \E i \in 1 .. last : collected[i] = b
      OBVIOUS
    <3>1. CASE direction = "asc"
      BY <2>2, <3>1
    <3>2. CASE direction # "asc"
      <4>1. last - b + 1 \in 1 .. last /\ collected[last - b + 1] = b
        BY <2>1, <2>2, <3>2
      <4> QED
        BY <4>1
    <3> QED
      BY <3>1, <3>2
  <2>4. \A i \in 1 .. last : collected[i] \in 1 .. last
    BY <2>1, <2>2
  <2> QED
    BY <2>1, <2>3, <2>4
<1> QED
  BY <1>1, HistoryInvariant, PTL

-----------------------------------------------------------------------------
(* Single calls *)

\* What each method checks its arguments to be is one of the kinds of arguments.
LEMMA TablesHoldKinds ==
    \A t \in Tables : \A m \in DOMAIN t : \A i \in 1 .. Len(t[m]) : t[m][i] \in Kinds
<1>1. \A m \in DOMAIN BlockQueries : \A i \in 1 .. Len(BlockQueries[m]) :
         BlockQueries[m][i] \in Kinds
  BY DEF BlockQueries, Kinds
<1>2. \A m \in DOMAIN ValidatorCalls : \A i \in 1 .. Len(ValidatorCalls[m]) :
         ValidatorCalls[m][i] \in Kinds
  BY DEF ValidatorCalls, Kinds
<1>3. \A m \in DOMAIN NodeQueries : \A i \in 1 .. Len(NodeQueries[m]) :
         NodeQueries[m][i] \in Kinds
  BY DEF NodeQueries, Kinds
<1>4. \A m \in DOMAIN BundleQueries : \A i \in 1 .. Len(BundleQueries[m]) :
         BundleQueries[m][i] \in Kinds
  BY DEF BundleQueries, Kinds
<1> QED
  BY <1>1, <1>2, <1>3, <1>4, Zenon DEF Tables

LEMMA ChecksAreKinds ==
    ASSUME NEW m \in Methods, NEW i \in 1 .. Len(Checks(m))
    PROVE  Checks(m)[i] \in Kinds
<1> DEFINE t == CHOOSE t \in Tables : m \in DOMAIN t
<1>1. t \in Tables /\ m \in DOMAIN t
  BY DEF Methods
<1>2. Checks(m) = t[m]
  BY DEF Checks
<1> HIDE DEF t
<1> QED
  BY <1>1, <1>2, TablesHoldKinds, Zenon


\* An argument that passes its check is sent as the node understands it.
LEMMA WireIsUnderstood ==
    ASSUME NEW kind \in Kinds, NEW a \in Arguments(kind) \ Refused
    PROVE  OnWire(kind, a) \in WireForms(kind)
BY DEF Kinds, Arguments, Refused, OnWire, WireForms

\* What is in the answer, who wrote it, and why there is no result.
FromNode(a, why) ==
    \/ /\ executed = 1
       /\ \E r \in {"value", "null", "empty"} :
            /\ a = [Answer EXCEPT !.result = r]
            /\ why = IF r = "empty" THEN "unreported" ELSE Nothing
    \/ /\ executed = 0
       /\ \E c \in {NoSuchMethod, ServerError}, w \in {"other", "method not found", "profile not configured"} :
            /\ a = [Answer EXCEPT !.error = "error", !.code = c, !.message = w,
                                  !.result = "missing"]
            /\ why = IF c = NoSuchMethod \/ w = "profile not configured" THEN "unreported"
                     ELSE "refused"

FromElsewhere(a, why) ==
    \/ /\ executed = 0
       /\ a = [Answer EXCEPT !.http = 404, !.text = "method not found"]
       /\ why = "unreported"
    \/ a \in Garbled /\ why = "garbled"

\* Arguments that were checked, a node that executed nothing before the request was
\* sent, and an answer of one of the four kinds.
RpcInv ==
    /\ called \in Methods
    /\ DOMAIN arguments = 1 .. Len(Checks(called))
    /\ \A i \in DOMAIN arguments : arguments[i] \in Arguments(Checks(called)[i])
    /\ \A i \in DOMAIN wire : wire[i] \in WireForms(Checks(called)[i])
    /\ executed \in {0, 1}
    /\ stage \in {"create", "called", "sent"} => executed = 0 /\ reason = Nothing
    /\ stage = "answered" => FromNode(answer, reason) \/ FromElsewhere(answer, reason)
    /\ stage \in {"create", "called", "sent", "answered", "settled"}
    /\ OutcomeIsDefinite
    /\ UndefinedMeansUnreported

\* The invariant holds when the provider is created ...
LEMMA RpcStarts == RpcInit => RpcInv
  BY DEF RpcInit, RpcInv, OutcomeIsDefinite, UndefinedMeansUnreported

LEMMA ValidateKeeps ==
    ASSUME RpcInv, Validate
    PROVE  RpcInv'
<1> USE DEF RpcInv
<1>1. stage = "called" /\ executed = 0 /\ reason = Nothing
  BY DEF Validate
<1>2. UNCHANGED <<options, called, arguments, executed, answer, reason>>
  BY DEF Validate, given
<1>3. CASE \E i \in DOMAIN arguments : arguments[i] \in Refused
  <2>1. outcome' = Rejected("arguments") /\ stage' = "settled" /\ wire' = wire
    BY <1>3 DEF Validate
  <2>2. OutcomeIsDefinite'
    BY <1>1, <1>2, <2>1 DEF OutcomeIsDefinite, Rejected
  <2>3. UndefinedMeansUnreported'
    BY <1>1, <1>2, <2>1, NothingAssumption DEF UndefinedMeansUnreported, Rejected, Resolved
  <2> QED
    BY <1>1, <1>2, <2>1, <2>2, <2>3
<1>4. CASE ~ \E i \in DOMAIN arguments : arguments[i] \in Refused
  <2>1. /\ wire' = [i \in DOMAIN arguments |-> OnWire(Checks(called)[i], arguments[i])]
        /\ stage' = "sent" /\ outcome' = outcome
    BY <1>4 DEF Validate
  <2>2. \A i \in DOMAIN arguments :
           OnWire(Checks(called)[i], arguments[i]) \in WireForms(Checks(called)[i])
    BY <1>4, ChecksAreKinds, WireIsUnderstood
  <2>3. \A i \in DOMAIN wire' : wire'[i] \in WireForms(Checks(called)[i])
    BY <2>1, <2>2
  <2> QED
    BY <1>1, <1>2, <2>1, <2>3 DEF OutcomeIsDefinite, UndefinedMeansUnreported
<1> QED
  BY <1>3, <1>4

LEMMA Codes ==
    /\ NoSuchMethod # Nothing /\ ServerError # Nothing
    /\ NoSuchMethod # ServerError
<1>1. NoSuchMethod \in Int /\ ServerError \in Int /\ NoSuchMethod # ServerError
  BY SMT DEF NoSuchMethod, ServerError
<1> QED
  BY <1>1, NothingAssumption, Zenon

\* What comes of each kind of answer.
LEMMA ParsedResult ==
    ASSUME NEW r \in {"value", "null", "empty"}, NEW a, a = [Answer EXCEPT !.result = r]
    PROVE  Parsed(a) = Resolved(r)
<1>1. a.http = 200 /\ a.body = "object" /\ a.error = "absent" /\ a.result = r
  BY DEF Answer
<1>2. a.mine
  BY Zenon DEF Answer
<1>3. a.result # "missing"
  BY <1>1
<1>4. Parsed(a) = Resolved(a.result)
  BY <1>1, <1>2, <1>3, Zenon DEF Parsed
<1> QED
  BY <1>1, <1>4, Zenon

LEMMA ParsedError ==
    ASSUME NEW c, NEW w, NEW a,
           a = [Answer EXCEPT !.error = "error", !.code = c, !.message = w,
                              !.result = "missing"]
    PROVE  Parsed(a) = RpcRequestError(c, w)
<1>1. a.http = 200 /\ a.body = "object" /\ a.error = "error" /\ a.code = c /\ a.message = w
  BY DEF Answer
<1>2. a.mine
  BY Zenon DEF Answer
<1>3. Parsed(a) = RpcRequestError(a.code, a.message)
  BY <1>1, <1>2, Zenon DEF Parsed
<1> QED
  BY <1>1, <1>3, Zenon

LEMMA ParsedUnrouted ==
    ASSUME NEW a, a = [Answer EXCEPT !.http = 404, !.text = "method not found"]
    PROVE  Parsed(a) = Rejected("method not found")
<1>1. a.http # 200 /\ a.text = "method not found"
  BY SMT DEF Answer
<1> QED
  BY <1>1, Zenon DEF Parsed

Undecided == {"other", "body", "identity", "malformed error", "missing"}

LEMMA ParsedGarbled ==
    ASSUME NEW a \in Garbled
    PROVE  \E w \in Undecided : Parsed(a) = Rejected(w)
<1>1. CASE a = [Answer EXCEPT !.http = 502, !.text = "other"]
  <2>1. a.http # 200 /\ a.text = "other"
    BY <1>1, SMT DEF Answer
  <2> QED
    BY <2>1, Zenon DEF Parsed, Undecided
<1>2. ASSUME NEW b \in {"none", "no JSON", "no object"}, a = [Answer EXCEPT !.body = b]
      PROVE  Parsed(a) = Rejected("body")
  <2>1. a.http = 200
    BY <1>2, Zenon DEF Answer
  <2>2. a.body = b /\ b # "object"
    BY <1>2, Zenon DEF Answer
  <2> QED
    BY <2>1, <2>2, Zenon DEF Parsed
<1>3. ASSUME NEW e \in {"absent", "error"},
             a = [Answer EXCEPT !.mine = FALSE, !.error = e, !.code = NoSuchMethod]
      PROVE  Parsed(a) = Rejected("identity")
  <2>1. a.http = 200 /\ a.body = "object"
    BY <1>3, SMT DEF Answer
  <2>2. ~ a.mine
    BY <1>3, Zenon DEF Answer
  <2> QED
    BY <2>1, <2>2, Zenon DEF Parsed
<1>4. ASSUME NEW e \in {"null", "malformed"}, a = [Answer EXCEPT !.error = e]
      PROVE  Parsed(a) = Rejected("malformed error")
  <2>1. a.http = 200 /\ a.body = "object" /\ a.error = e
    BY <1>4, SMT DEF Answer
  <2>2. a.mine
    BY <1>4, Zenon DEF Answer
  <2> QED
    BY <2>1, <2>2, Zenon DEF Parsed
<1>5. CASE a = [Answer EXCEPT !.result = "missing"]
  <2>1. a.http = 200 /\ a.body = "object" /\ a.error = "absent" /\ a.result = "missing"
    BY <1>5, SMT DEF Answer
  <2>2. a.mine
    BY <1>5, Zenon DEF Answer
  <2> QED
    BY <2>1, <2>2, Zenon DEF Parsed, Undecided
<1> QED
  BY <1>1, <1>2, <1>3, <1>4, <1>5, Zenon DEF Garbled, Undecided

LEMMA ResolvedIs ==
    ASSUME NEW v
    PROVE  Resolved(v).is = "resolved" /\ Resolved(v).value = v /\ Resolved(v).code = Nothing
  BY DEF Resolved

LEMMA RejectedIs ==
    ASSUME NEW v
    PROVE  Rejected(v).is = "rejected" /\ Rejected(v).value = v /\ Rejected(v).code = Nothing
  BY DEF Rejected

LEMMA RequestErrorIs ==
    ASSUME NEW c, NEW w
    PROVE  /\ RpcRequestError(c, w).is = "rejected"
           /\ RpcRequestError(c, w).value = w /\ RpcRequestError(c, w).code = c
  BY DEF RpcRequestError

\* What getStorageProfile makes of it.
LEMMA ProfileOf ==
    ASSUME NEW x
    PROVE  /\ x.is = "rejected" /\ x.code = Nothing /\ x.value = "method not found"
                => Profile(x) = Resolved("undefined")
           /\ x.is = "rejected" /\ x.code = Nothing /\ x.value \in Undecided
                => Profile(x) = x
           /\ x.is = "rejected" /\ x.code # Nothing
                => Profile(x) = IF x.code = NoSuchMethod \/ x.value = "profile not configured"
                                THEN Resolved("undefined") ELSE x
           /\ x.is = "resolved"
                => Profile(x) = IF x.value = "null" THEN Rejected("type error")
                                ELSE IF x.value = "empty" THEN Resolved("undefined") ELSE x
<1>1. x.is = "rejected" /\ x.code = Nothing /\ x.value = "method not found"
         => Profile(x) = Resolved("undefined")
  BY Zenon DEF Profile, MethodNotFoundError
<1>2. ASSUME x.is = "rejected", x.code = Nothing, x.value \in Undecided
      PROVE  Profile(x) = x
  <2>1. x.value # "method not found" /\ x.value # "profile not configured"
    BY <1>2 DEF Undecided
  <2> QED
    BY <1>2, <2>1, Zenon DEF Profile, MethodNotFoundError
<1>3. x.is = "rejected" /\ x.code # Nothing
         => Profile(x) = IF x.code = NoSuchMethod \/ x.value = "profile not configured"
                         THEN Resolved("undefined") ELSE x
  BY Zenon DEF Profile, MethodNotFoundError
<1>4. x.is = "resolved"
         => Profile(x) = IF x.value = "null" THEN Rejected("type error")
                         ELSE IF x.value = "empty" THEN Resolved("undefined") ELSE x
  BY Zenon DEF Profile, MethodNotFoundError
<1> QED
  BY <1>1, <1>2, <1>3, <1>4, Zenon

\* What may be the outcome of a call, after how many executions.
Says(x, times) ==
    /\ x.is = "resolved" /\ x.value # "undefined" => times = 1
    /\ x.is = "rejected" => /\ x.value \notin {"options", "arguments"}
                            /\ x.code # Nothing => times = 0

LEMMA SettleKeeps ==
    ASSUME RpcInv, Settle
    PROVE  OutcomeIsDefinite' /\ UndefinedMeansUnreported'
<1> DEFINE parsed == Parsed(answer)
           profile == Profile(parsed)
<1>1. /\ stage = "answered" /\ stage' = "settled"
      /\ outcome' = IF called = "getStorageProfile" THEN profile ELSE parsed
      /\ UNCHANGED <<options, called, arguments, wire, executed, answer, reason>>
  BY DEF Settle, given
<1>2. executed \in {0, 1} /\ (executed = 1 => \A i \in DOMAIN wire : wire[i] \in WireForms(Checks(called)[i]))
  BY DEF RpcInv
<1>3. /\ Says(parsed, executed) /\ Says(profile, executed)
      /\ profile = Resolved("undefined") <=> reason = "unreported"
  <2>1. ASSUME NEW r \in {"value", "null", "empty"}, executed = 1,
               answer = [Answer EXCEPT !.result = r],
               reason = IF r = "empty" THEN "unreported" ELSE Nothing
        PROVE  /\ Says(parsed, executed) /\ Says(profile, executed)
               /\ profile = Resolved("undefined") <=> reason = "unreported"
    <3>1. parsed = Resolved(r)
      BY <2>1, ParsedResult
    <3> HIDE DEF parsed
    <3>2. reason # "unreported" <=> r # "empty"
      BY <2>1, NothingAssumption, Zenon
    <3>3. profile = IF r = "null" THEN Rejected("type error")
                    ELSE IF r = "empty" THEN Resolved("undefined") ELSE Resolved(r)
      BY <3>1, ProfileOf, ResolvedIs, Zenon
    <3> HIDE DEF profile
    <3>4. CASE r = "empty"
      BY <2>1, <3>1, <3>2, <3>3, <3>4, ResolvedIs, Zenon DEF Says
    <3>5. CASE r = "null"
      BY <2>1, <3>1, <3>2, <3>3, <3>5, ResolvedIs, RejectedIs, Zenon DEF Says
    <3>6. CASE r = "value"
      BY <2>1, <3>1, <3>2, <3>3, <3>6, ResolvedIs, Zenon DEF Says
    <3> QED
      BY <3>4, <3>5, <3>6
  <2>2. ASSUME NEW c \in {NoSuchMethod, ServerError},
               NEW w \in {"other", "method not found", "profile not configured"},
               executed = 0,
               answer = [Answer EXCEPT !.error = "error", !.code = c, !.message = w,
                                       !.result = "missing"],
               reason = IF c = NoSuchMethod \/ w = "profile not configured"
                        THEN "unreported" ELSE "refused"
        PROVE  /\ Says(parsed, executed) /\ Says(profile, executed)
               /\ profile = Resolved("undefined") <=> reason = "unreported"
    <3>1. parsed = RpcRequestError(c, w)
      BY <2>2, ParsedError
    <3> HIDE DEF parsed
    <3>2. c # Nothing
      <4>1. c = NoSuchMethod \/ c = ServerError
        BY <2>2
      <4> QED
        BY <4>1, Codes, Zenon
    <3>3. parsed.is = "rejected" /\ parsed.code = c /\ parsed.value = w
      BY <3>1, Zenon DEF RpcRequestError
    <3>4. profile = IF c = NoSuchMethod \/ w = "profile not configured"
                    THEN Resolved("undefined") ELSE RpcRequestError(c, w)
      BY <3>1, <3>2, <3>3, ProfileOf, Zenon
    <3>5. w \notin {"options", "arguments"}
      BY <2>2
    <3> HIDE DEF profile
    <3> QED
      <4>1. Says(parsed, executed)
        BY <2>2, <3>3, <3>5, Zenon DEF Says
      <4>2. CASE c = NoSuchMethod \/ w = "profile not configured"
        <5>1. profile = Resolved("undefined") /\ reason = "unreported"
          BY <2>2, <3>4, <4>2, Zenon
        <5>2. Says(profile, executed)
          BY <5>1, ResolvedIs, Zenon DEF Says
        <5> QED
          BY <4>1, <5>1, <5>2, Zenon
      <4>3. CASE ~ (c = NoSuchMethod \/ w = "profile not configured")
        <5>1. profile = parsed /\ reason = "refused"
          BY <2>2, <3>1, <3>4, <4>3, Zenon
        <5>2. profile # Resolved("undefined")
          BY <3>3, <5>1, ResolvedIs, Zenon
        <5> QED
          BY <4>1, <5>1, <5>2, Zenon
      <4> QED
        BY <4>2, <4>3, Zenon
  <2>3. ASSUME executed = 0, reason = "unreported",
               answer = [Answer EXCEPT !.http = 404, !.text = "method not found"]
        PROVE  /\ Says(parsed, executed) /\ Says(profile, executed)
               /\ profile = Resolved("undefined") <=> reason = "unreported"
    <3>1. parsed = Rejected("method not found")
      BY <2>3, ParsedUnrouted
    <3> HIDE DEF parsed
    <3>2. profile = Resolved("undefined")
      <4>1. /\ parsed.is = "rejected" /\ parsed.code = Nothing
            /\ parsed.value = "method not found"
        BY <3>1, RejectedIs, Zenon
      <4> QED
        BY <4>1, ProfileOf, Zenon
    <3> HIDE DEF profile
    <3> QED
      BY <2>3, <3>1, <3>2, ResolvedIs, RejectedIs, Zenon DEF Says
  <2>4. ASSUME answer \in Garbled, reason = "garbled"
        PROVE  /\ Says(parsed, executed) /\ Says(profile, executed)
               /\ profile = Resolved("undefined") <=> reason = "unreported"
    <3>1. PICK w \in Undecided : parsed = Rejected(w)
      BY <2>4, ParsedGarbled
    <3> HIDE DEF parsed
    <3>2. profile = Rejected(w)
      BY <3>1, ProfileOf, RejectedIs, Zenon
    <3>3. w \notin {"options", "arguments"}
      BY <3>1 DEF Undecided
    <3> HIDE DEF profile
    <3> QED
      BY <2>4, <3>1, <3>2, <3>3, ResolvedIs, RejectedIs, Zenon DEF Says
  <2> QED
    BY <1>1, <2>1, <2>2, <2>3, <2>4, Zenon DEF RpcInv, FromNode, FromElsewhere
<1> HIDE DEF parsed, profile
<1>4. Says(outcome', executed)
  BY <1>1, <1>3, Zenon
<1>5. OutcomeIsDefinite'
  BY <1>1, <1>2, <1>4 DEF OutcomeIsDefinite, Says
<1>6. UndefinedMeansUnreported'
  BY <1>1, <1>3, Zenon DEF UndefinedMeansUnreported
<1> QED
  BY <1>5, <1>6

\* ... and every step of the call keeps it.
LEMMA RpcStep == RpcInv /\ [RpcNext]_rpcVars => RpcInv'
<1> SUFFICES ASSUME RpcInv, [RpcNext]_rpcVars
             PROVE  RpcInv'
  OBVIOUS
<1> USE DEF RpcInv
<1>1. CASE Create
  BY <1>1, NothingAssumption
     DEF Create, OutcomeIsDefinite, UndefinedMeansUnreported, Rejected, Resolved, given
<1>2. CASE Validate
  BY <1>2, ValidateKeeps
<1>3. CASE Execute
  BY <1>3 DEF Execute, Reachable, FromNode, OutcomeIsDefinite, UndefinedMeansUnreported, given
<1>4. CASE Refuse
  <2>1. executed = 0 /\ executed' = executed
    BY <1>4 DEF Refuse, Reachable
  <2>2. FromNode(answer, reason)'
    BY <1>4, <2>1, Zenon DEF Refuse, FromNode
  <2> QED
    BY <1>4, <2>1, <2>2 DEF Refuse, OutcomeIsDefinite, UndefinedMeansUnreported, given
<1>5. CASE Unrouted
  BY <1>5 DEF Unrouted, Reachable, FromElsewhere, OutcomeIsDefinite, UndefinedMeansUnreported, given
<1>6. CASE Garble
  BY <1>6 DEF Garble, Reachable, FromElsewhere, OutcomeIsDefinite, UndefinedMeansUnreported, given
<1>7. CASE NetworkFails
  BY <1>7 DEF NetworkFails, OutcomeIsDefinite, UndefinedMeansUnreported, Rejected, given
<1>8. CASE Settle
  <2>1. OutcomeIsDefinite' /\ UndefinedMeansUnreported'
    BY <1>8, SettleKeeps
  <2> QED
    BY <1>8, <2>1 DEF Settle, given
<1>9. CASE UNCHANGED rpcVars
  BY <1>9 DEF rpcVars, given, FromNode, FromElsewhere, OutcomeIsDefinite, UndefinedMeansUnreported
<1> QED
  BY <1>1, <1>2, <1>3, <1>4, <1>5, <1>6, <1>7, <1>8, <1>9 DEF RpcNext

LEMMA RpcInvariant == RpcSpec => []RpcInv
<1> QED
  BY RpcStarts, RpcStep, PTL DEF RpcSpec

\* What the caller may conclude from the outcome of a call, whichever method it calls
\* and whatever happened to the answer (request and parseJsonRpcResponse).
THEOREM OutcomesAreDefinite == RpcSpec => []OutcomeIsDefinite
<1>1. RpcInv => OutcomeIsDefinite
  BY DEF RpcInv
<1> QED
  BY <1>1, RpcInvariant, PTL

\* getStorageProfile says undefined exactly when the node does not report a profile.
THEOREM UndefinedIsUnreported == RpcSpec => []UndefinedMeansUnreported
<1>1. RpcInv => UndefinedMeansUnreported
  BY DEF RpcInv
<1> QED
  BY <1>1, RpcInvariant, PTL

=============================================================================
