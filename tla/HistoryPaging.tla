--------------------------- MODULE HistoryPaging ---------------------------
(***************************************************************************)
(* Reading an account's transaction history page by page while the chain   *)
(* grows: getTransactionsByAddress, by page number, and                    *)
(* getTransactionsByAddressV2, by cursor and with a fallback to the first  *)
(* page of the other method (src/src/provider.ts).  The fallback sends a   *)
(* second request after the first was answered, and the chain may have     *)
(* grown in between.                                                       *)
(*                                                                         *)
(* The nodes behind the RPC address are external: any of them may answer a *)
(* request, some know the V2 method and some do not.  They hold the same   *)
(* chain.  Blocks are numbered from 1; each holds one transaction of the   *)
(* account, named by its block.  A cursor names the next block to report   *)
(* and the last block of the range.  The reader is the caller's loop as    *)
(* the README shows it: it follows nextCursor until there is none, or      *)
(* counts pages, keeping toBlock as the first page reported it.            *)
(***************************************************************************)
EXTENDS Integers, Sequences

CONSTANTS
    MaxHead,            \* bound: blocks on the chain
    PageSize,           \* transactions per page
    None                \* null: no cursor, no toBlock

Blocks == 1 .. MaxHead
Cursors == [next : 0 .. MaxHead + 1, last : 0 .. MaxHead]

ASSUME PagingAssumption ==
    /\ MaxHead \in Nat
    /\ PageSize \in Nat \ {0}
    /\ None \notin Int \cup Cursors

VARIABLES
    head,               \* the nodes: last block
    method,             \* "cursor" (V2) or "page"
    direction,          \* options.direction: "asc" or "desc"
    toBlock,            \* options.toBlock
    cursor,             \* options.cursor
    page,               \* options.page
    pc,                 \* what the reader awaits, or how it ended
    collected,          \* the transactions reported, in order
    last,               \* history: the last block of the range, once reported
    sorry               \* the last page said hasMore and gave no cursor

query == <<method, direction>>
vars == <<head, query, toBlock, cursor, page, pc, collected, last, sorry>>

Smallest(a, b) == IF a <= b THEN a ELSE b

\* The n-th, n+1-th, ... transaction of blocks 1 .. top, latest or earliest first.
Descending(from, n) == [i \in 1 .. n |-> from - i + 1]
Ascending(from, n) == [i \in 1 .. n |-> from + i - 1]

Init ==
    /\ head \in 0 .. MaxHead
    /\ method \in {"cursor", "page"}
    /\ direction \in {"asc", "desc"}
    /\ method = "page" => direction = "desc"
    /\ toBlock \in {None} \cup 0 .. head
    /\ cursor = None
    /\ page = 0
    /\ pc = IF method = "cursor" THEN "v2" ELSE "page"
    /\ collected = <<>>
    /\ last = None
    /\ sorry = FALSE

\* Deliberate fault: toBlock is not handed on.
RangeDropped == head

\* The last block of the range asked for, as the node takes it.
Top == IF toBlock = None THEN head ELSE toBlock

-----------------------------------------------------------------------------

Report(items, top) ==
    /\ collected' = collected \o items
    /\ last' = IF last = None THEN top ELSE last

\* A node that knows V2 answers, and the reader goes on with nextCursor.
V2Answered ==
    /\ pc = "v2"
    /\ LET at == IF cursor # None THEN cursor
                 ELSE [next |-> IF direction = "asc" THEN 1 ELSE Top, last |-> Top]
           left == IF direction = "asc" THEN at.last - at.next + 1 ELSE at.next
           n == Smallest(PageSize, left)
       IN  /\ Report(IF direction = "asc" THEN Ascending(at.next, n)
                                          ELSE Descending(at.next, n), at.last)
           /\ \/ /\ n < left
                 /\ cursor' = [at EXCEPT !.next =
                                 IF direction = "asc" THEN @ + n ELSE @ - n]
                 /\ UNCHANGED pc
              \/ /\ n = left
                 /\ pc' = "ended"
                 /\ UNCHANGED cursor
    /\ UNCHANGED <<head, query, toBlock, page, sorry>>

\* Deliberate fault: ascending readers get the fallback's descending page.
FallBackAscending ==
    /\ pc = "v2"
    /\ pc' = IF cursor # None THEN "failed" ELSE "fallback"
    /\ UNCHANGED <<head, query, toBlock, cursor, page, collected, last, sorry>>

\* The answer is "method not found": only the first page, latest first, is
\* asked for in the other way.
MethodNotFound ==
    /\ pc = "v2"
    /\ pc' = IF cursor = None /\ direction = "desc" THEN "fallback" ELSE "failed"
    /\ UNCHANGED <<head, query, toBlock, cursor, page, collected, last, sorry>>

\* Any other error, of either request, is passed on.
RequestFails ==
    /\ pc \in {"v2", "fallback", "page"}
    /\ pc' = "failed"
    /\ UNCHANGED <<head, query, toBlock, cursor, page, collected, last, sorry>>

\* Deliberate fault: without a cursor nothing more is said to follow.
NeverMore(length, total) == FALSE

\* hasMore: legacy.transactions.length < legacy.total
HasMore(length, total) == length < total

\* Deliberate fault: the fallback makes up a cursor one page further down.
FallbackMakesCursor ==
    /\ pc = "fallback"
    /\ Report(Descending(Top, Smallest(PageSize, Top)), Top)
    /\ cursor' = [next |-> Top - PageSize, last |-> Top]
    /\ pc' = "v2"
    /\ UNCHANGED <<head, query, toBlock, page, sorry>>

\* The first page of the other method in the shape of a V2 answer; the reader
\* finds no cursor to go on with.
FallbackAnswered ==
    /\ pc = "fallback"
    /\ LET n == Smallest(PageSize, Top)
       IN  Report(Descending(Top, n), Top) /\ sorry' = HasMore(n, Top)
    /\ pc' = "ended"
    /\ UNCHANGED <<head, query, toBlock, cursor, page>>

\* A page by number; the reader keeps the range of the first one.
PageAnswered ==
    /\ pc = "page"
    /\ LET first == Top - page * PageSize
           n == IF first < 0 THEN 0 ELSE Smallest(PageSize, first)
       IN  /\ Report(Descending(first, n), Top)
           /\ pc' = IF Len(collected') < Top THEN "page" ELSE "ended"
    /\ toBlock' = Top
    /\ page' = page + 1
    /\ UNCHANGED <<head, query, cursor, sorry>>

NewBlock ==
    /\ head < MaxHead
    /\ head' = head + 1
    /\ UNCHANGED <<query, toBlock, cursor, page, pc, collected, last, sorry>>

Next ==
    \/ V2Answered \/ MethodNotFound \/ FallbackAnswered \/ PageAnswered
    \/ RequestFails
    \/ NewBlock

Spec == Init /\ [][Next]_vars

-----------------------------------------------------------------------------

\* Every variable keeps its type; a page without a cursor, the fallback's, ends
\* the reading.
TypeOK ==
    /\ head \in 0 .. MaxHead
    /\ method \in {"cursor", "page"}
    /\ direction \in {"asc", "desc"}
    /\ toBlock \in {None} \cup 0 .. MaxHead
    /\ cursor \in {None} \cup Cursors
    /\ page \in 0 .. MaxHead + 1
    /\ pc \in {"v2", "fallback", "page", "ended", "failed"}
    /\ collected \in Seq(Blocks)
    /\ last \in {None} \cup 0 .. MaxHead
    /\ sorry \in BOOLEAN

\* The pages fit together: in the direction asked for, without a gap and with
\* nothing twice, also when blocks arrive and when nodes of both kinds answer
\* in turns ("mislabeled descending data", CHANGELOG 0.11.1; "pin `toBlock`
\* from page 0 for stable full-history pagination", README).
Contiguous ==
    \A i \in 1 .. Len(collected) - 1 :
        collected[i + 1] = IF direction = "asc" THEN collected[i] + 1
                                                ELSE collected[i] - 1

\* A reader that ends without being told that there is more has the whole
\* history of the range (hasMore of the fallback).
EndMeansAll ==
    pc = "ended" /\ ~ sorry =>
        {collected[i] : i \in 1 .. Len(collected)} = 1 .. last

=============================================================================
