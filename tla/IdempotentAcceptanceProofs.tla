--------------------- MODULE IdempotentAcceptanceProofs ---------------------
(***************************************************************************)
(* Theorems about IdempotentAcceptance, for every set of requests, keys    *)
(* and contents, and every bound.                                          *)
(***************************************************************************)
EXTENDS IdempotentAcceptance, TLAPS

USE AcceptanceAssumption DEF Attempts

LEMMA ElementOfSeq ==
  ASSUME NEW S, NEW s \in Seq(S), NEW i \in DOMAIN s PROVE s[i] \in S
  OBVIOUS

\* The requests that the steps make of a request, one field after the other.
LEMMA AnswerType ==
  ASSUME NEW q \in Request, NEW answer \in {"new", "duplicate", "conflict",
         "error", "lost"}, NEW row \in 0 .. MaxRows
  PROVE  [q EXCEPT !.pc = "answered", !.answer = answer, !.row = row] \in Request
  <1> DEFINE q1 == [q EXCEPT !.pc = "answered"]
             q2 == [q1 EXCEPT !.answer = answer]
  <1>1. q1 \in Request
    BY DEF Request
  <1>2. q2 \in Request
    BY <1>1 DEF Request
  <1>3. [q2 EXCEPT !.row = row] \in Request
    BY <1>2 DEF Request
  <1> QED
    BY <1>3

LEMMA FoundType ==
  ASSUME NEW q \in Request, NEW found \in 0 .. MaxRows
  PROVE  [q EXCEPT !.pc = "write", !.found = found] \in Request
  <1> DEFINE q1 == [q EXCEPT !.pc = "write"]
  <1>1. q1 \in Request
    BY DEF Request
  <1>2. [q1 EXCEPT !.found = found] \in Request
    BY <1>1 DEF Request
  <1> QED
    BY <1>2

LEMMA RetryType ==
  ASSUME NEW q \in Request, q.left > 1
  PROVE  [q EXCEPT !.pc = "find", !.left = q.left - 1] \in Request
  <1> DEFINE q1 == [q EXCEPT !.pc = "find"]
  <1>1. q1 \in Request /\ q.left - 1 \in 0 .. Attempts
    BY DEF Request
  <1>2. [q1 EXCEPT !.left = q.left - 1] \in Request
    BY <1>1 DEF Request
  <1> QED
    BY <1>2

\* Rows and keys that stay keep everything AcceptanceInv says of them.
LEMMA SameRowsAndKeys ==
  ASSUME AcceptanceInv, UNCHANGED <<rows, keys, ended>>,
         req' \in [Procs -> Request], losses' \in 0 .. MaxLosses
  PROVE  TypeOK' /\ KeysNameTheirRows'
  BY DEF AcceptanceInv, TypeOK, KeysNameTheirRows, NoKeyRow

LEMMA InitInv == Init => AcceptanceInv
  <1> SUFFICES ASSUME Init PROVE AcceptanceInv
    OBVIOUS
  <1>1. TypeOK
    BY DEF Init, TypeOK, KeyRow, NoKeyRow, NoRow, Request
  <1>2. KeysNameTheirRows
    BY DEF Init, KeysNameTheirRows, NoKeyRow
  <1>3. RequestsAreComplete /\ WhatWasFoundHolds /\ AnswersAreTrue
    BY DEF Init, RequestsAreComplete, WhatWasFoundHolds, AnswersAreTrue
  <1> QED
    BY <1>1, <1>2, <1>3 DEF AcceptanceInv

\* A step that changes one request, and rows and keys not at all, keeps the
\* invariant when what it says of that request is true.
LEMMA RequestStep ==
  ASSUME AcceptanceInv, NEW p \in Procs, NEW r \in Request,
         req' = [req EXCEPT ![p] = r],
         UNCHANGED <<rows, keys, ended>>, losses' \in 0 .. MaxLosses,
         r.key \in Keys, r.content \in Contents,
         r.pc = "write" =>
           keys[r.key].state # "valid" /\ keys[r.key].row = r.found,
         r.answer # "new", r.pc # "answered" => r.answer = "none",
         r.answer = "duplicate" =>
           /\ r.row \in DOMAIN rows
           /\ rows[r.row] = [key |-> r.key, content |-> r.content],
         r.answer = "conflict" =>
           \E n \in DOMAIN rows :
             rows[n].key = r.key /\ rows[n].content # r.content
  PROVE  AcceptanceInv'
  <1>1. req \in [Procs -> Request] /\ req' \in [Procs -> Request]
    BY DEF AcceptanceInv, TypeOK
  <1>2. req'[p] = r /\ \A q \in Procs \ {p} : req'[q] = req[q]
    BY <1>1
  <1>3. TypeOK' /\ KeysNameTheirRows'
    BY <1>1, SameRowsAndKeys
  <1>4. RequestsAreComplete'
    BY <1>2 DEF AcceptanceInv, RequestsAreComplete
  <1>5. WhatWasFoundHolds'
    <2> SUFFICES ASSUME NEW q \in Procs, req'[q].pc = "write"
                 PROVE  /\ keys[req'[q].key].state # "valid"
                        /\ ~(/\ keys[req'[q].key].state # "none"
                             /\ keys[req'[q].key].row # req'[q].found)
      BY DEF WhatWasFoundHolds, KeyOf, KeyTaken
    <2>1. CASE q = p
      BY <1>2, <2>1
    <2>2. CASE q # p
      BY <1>2, <2>2 DEF AcceptanceInv, WhatWasFoundHolds, KeyOf, KeyTaken
    <2> QED
      BY <2>1, <2>2
  <1>6. AnswersAreTrue'
    <2> SUFFICES ASSUME NEW q \in Procs
                 PROVE
        /\ req'[q].answer \in {"new", "duplicate"} =>
             /\ req'[q].row \in DOMAIN rows
             /\ rows[req'[q].row] = [key |-> req'[q].key, content |-> req'[q].content]
        /\ req'[q].answer = "new" =>
             \A o \in Procs \ {q} :
               req'[o].answer = "new" => req'[o].row # req'[q].row
        /\ req'[q].answer = "conflict" =>
             \E m \in DOMAIN rows :
               rows[m].key = req'[q].key /\ rows[m].content # req'[q].content
      BY DEF AnswersAreTrue
    <2>1. CASE q = p
      BY <1>2, <2>1
    <2>2. CASE q # p
      BY <1>2, <2>2 DEF AcceptanceInv, AnswersAreTrue
    <2> QED
      BY <2>1, <2>2
  <1> QED
    BY <1>3, <1>4, <1>5, <1>6 DEF AcceptanceInv

\* An unanswered request has a key and a content, and no answer that counts.
LEMMA InService ==
  ASSUME AcceptanceInv, NEW p \in Procs, req[p].pc # "idle"
  PROVE  /\ req[p] \in Request /\ req \in [Procs -> Request]
         /\ req[p].key \in Keys /\ req[p].content \in Contents
         /\ KeyOf(p) = keys[req[p].key] /\ KeyOf(p) \in KeyRow
         /\ losses \in 0 .. MaxLosses
  BY DEF AcceptanceInv, TypeOK, RequestsAreComplete, KeyOf

LEMMA SendInv ==
  ASSUME AcceptanceInv, NEW p \in Procs, NEW key \in Keys,
         NEW content \in Contents, Send(p, key, content)
  PROVE  AcceptanceInv'
  <1> DEFINE r == [pc |-> "find", key |-> key, content |-> content,
                   left |-> Attempts, found |-> NoRow, answer |-> "none",
                   row |-> NoRow]
  <1>1. r \in Request
    BY DEF Request, NoRow
  <1>2. /\ req' = [req EXCEPT ![p] = r] /\ losses' \in 0 .. MaxLosses
        /\ UNCHANGED <<rows, keys, ended>>
    BY DEF Send, AcceptanceInv, TypeOK
  <1> QED
    BY <1>1, <1>2, RequestStep

\* The request ends with an answer that names no row.
LEMMA GiveUpInv ==
  ASSUME AcceptanceInv, NEW p \in Procs, req[p].pc # "idle",
         NEW answer \in {"error", "lost"}, req' = Answered(p, answer, NoRow),
         UNCHANGED <<rows, keys, ended>>, losses' \in 0 .. MaxLosses
  PROVE  AcceptanceInv'
  <1> DEFINE r == [req[p] EXCEPT !.pc = "answered", !.answer = answer, !.row = NoRow]
  <1>1. req[p] \in Request /\ NoRow \in 0 .. MaxRows
    BY InService DEF NoRow
  <1>2. r \in Request
    BY <1>1, AnswerType
  <1>3. req' = [req EXCEPT ![p] = r]
    BY InService DEF Answered
  <1>4. /\ r.pc = "answered" /\ r.answer = answer
        /\ r.key = req[p].key /\ r.content = req[p].content
    BY <1>1 DEF Request
  <1> HIDE DEF r
  <1>5. r.key \in Keys /\ r.content \in Contents
    BY <1>4, InService
  <1> QED
    BY <1>2, <1>3, <1>4, <1>5, RequestStep

\* The answer to a key that is there is true.
LEMMA KnownKeyInv ==
  ASSUME AcceptanceInv, NEW p \in Procs, req[p].pc \in {"find", "catch"},
         KeyOf(p).state # "none", req' = KnownKeyAnswer(p),
         UNCHANGED <<rows, keys, ended, losses>>
  PROVE  AcceptanceInv'
  <1> DEFINE k == req[p].key
             same == keys[k].content = req[p].content
             r == [req[p] EXCEPT !.pc = "answered",
                     !.answer = IF same THEN "duplicate" ELSE "conflict",
                     !.row = IF same THEN keys[k].row ELSE NoRow]
  <1>1. /\ keys[k].row \in DOMAIN rows
        /\ rows[keys[k].row] = [key |-> k, content |-> keys[k].content]
        /\ keys[k].row \in 0 .. MaxRows
    BY InService DEF AcceptanceInv, TypeOK, KeysNameTheirRows, KeyRow
  <1>2. req' = [req EXCEPT ![p] = r]
    BY InService DEF KnownKeyAnswer, Answered
  <1>3. r \in Request
    <2>1. req[p] \in Request /\ NoRow \in 0 .. MaxRows
      BY InService DEF NoRow
    <2> QED
      BY <1>1, <2>1, AnswerType
  <1>4. /\ r.key = k /\ r.content = req[p].content /\ r.pc = "answered"
        /\ r.answer = IF same THEN "duplicate" ELSE "conflict"
        /\ r.row = IF same THEN keys[k].row ELSE NoRow
    BY InService DEF Request
  <1> HIDE DEF r
  <1>5. r.answer = "duplicate" =>
          r.row \in DOMAIN rows /\ rows[r.row] = [key |-> r.key, content |-> r.content]
    BY <1>1, <1>4
  <1>6. r.answer = "conflict" =>
          \E n \in DOMAIN rows : rows[n].key = r.key /\ rows[n].content # r.content
    BY <1>1, <1>4
  <1>7. r.answer # "new" /\ r.pc # "write" /\ r.key \in Keys /\ r.content \in Contents
    BY <1>4, InService
  <1>8. losses' \in 0 .. MaxLosses
    BY InService
  <1>9. r.pc # "answered" => r.answer = "none"
    BY <1>4
  <1> QED
    BY <1>2, <1>3, <1>5, <1>6, <1>7, <1>8, <1>9, RequestStep

LEMMA FindInv ==
  ASSUME AcceptanceInv, NEW p \in Procs, Find(p) PROVE AcceptanceInv'
  <1> DEFINE r == [req[p] EXCEPT !.pc = "write", !.found = KeyOf(p).row]
  <1>1. CASE InForce(p)
    BY <1>1, KnownKeyInv DEF Find, InForce
  <1>2. CASE ~InForce(p)
    <2>1. req[p].pc = "find" /\ req' = [req EXCEPT ![p] = r]
      BY <1>2, InService DEF Find
    <2>2. r \in Request
      <3>1. req[p] \in Request /\ KeyOf(p).row \in 0 .. MaxRows
        BY <2>1, InService DEF KeyRow
      <3> QED
        BY <3>1, FoundType
    <2>3. /\ r.key = req[p].key /\ r.content = req[p].content
          /\ r.found = KeyOf(p).row /\ r.answer = req[p].answer
          /\ r.pc = "write"
      BY <2>1, InService DEF Request
    <2>4. req[p].answer = "none"
      BY <2>1 DEF AcceptanceInv, RequestsAreComplete
    <2> HIDE DEF r
    <2>5. /\ r.key \in Keys /\ r.content \in Contents /\ losses \in 0 .. MaxLosses
          /\ keys[r.key].state # "valid" /\ keys[r.key].row = r.found
      BY <1>2, <2>1, <2>3, InService DEF InForce
    <2>6. UNCHANGED <<rows, keys, ended, losses>>
      BY DEF Find
    <2> QED
      BY <2>1, <2>2, <2>3, <2>4, <2>5, <2>6, RequestStep
  <1> QED
    BY <1>1, <1>2

\* The commit: a new row, and its key, which the locks kept free.
LEMMA InsertInv ==
  ASSUME AcceptanceInv, NEW p \in Procs, req[p].pc = "write", MayWrite(p),
         Len(rows) < MaxRows, Insert(p), UNCHANGED ended,
         NEW answer \in {"new", "lost"}, NEW row,
         row = IF answer = "new" THEN Len(rows') ELSE NoRow,
         req' = Answered(p, answer, row), losses' \in 0 .. MaxLosses
  PROVE  AcceptanceInv'
  <1> DEFINE k == req[p].key
             n == Len(rows) + 1
             new == [key |-> k, content |-> req[p].content]
  <1>1. /\ req \in [Procs -> Request] /\ k \in Keys /\ req[p].content \in Contents
        /\ keys \in [Keys -> KeyRow] /\ rows \in Seq([key : Keys, content : Contents])
        /\ keys[k].state # "valid"
        /\ new \in [key : Keys, content : Contents]
    BY DEF AcceptanceInv, TypeOK, RequestsAreComplete, WhatWasFoundHolds, KeyOf
  <1>2. /\ rows' = Append(rows, new) /\ Len(rows') = n /\ n \in 1 .. MaxRows
        /\ rows' \in Seq([key : Keys, content : Contents])
        /\ DOMAIN rows' = DOMAIN rows \cup {n} /\ n \notin DOMAIN rows
        /\ rows'[n] = new /\ \A m \in DOMAIN rows : rows'[m] = rows[m]
    BY <1>1 DEF Insert
  <1>3. keys' = [keys EXCEPT ![k] =
          [state |-> "valid", content |-> req[p].content, row |-> n]]
    BY <1>2 DEF Insert
  <1>4. req' = [req EXCEPT ![p].pc = "answered", ![p].answer = answer, ![p].row = row]
    BY DEF Answered
  <1> HIDE DEF new, n
  <1>5. row \in 0 .. MaxRows /\ (answer = "new" => row = n)
    BY <1>2 DEF NoRow
  <1>6. req' \in [Procs -> Request]
    <2>1. [req[p] EXCEPT !.pc = "answered", !.answer = answer, !.row = row] \in Request
      BY <1>1, <1>5, AnswerType
    <2>2. req' = [req EXCEPT ![p] =
            [req[p] EXCEPT !.pc = "answered", !.answer = answer, !.row = row]]
      BY <1>1, <1>4
    <2> QED
      BY <1>1, <2>1, <2>2
  <1>7. keys' \in [Keys -> KeyRow]
    BY <1>1, <1>2, <1>3 DEF KeyRow
  <1>8. TypeOK'
    <2>1. \A j \in Keys :
            IF keys'[j].state = "none" THEN keys'[j] = NoKeyRow
            ELSE keys'[j].row \in DOMAIN rows'
      BY <1>1, <1>2, <1>3 DEF AcceptanceInv, TypeOK
    <2> QED
      BY <1>2, <1>6, <1>7, <2>1 DEF AcceptanceInv, TypeOK
  <1>9. KeysNameTheirRows'
    <2>1. \A j \in Keys : keys'[j].state # "none" =>
            rows'[keys'[j].row] = [key |-> j, content |-> keys'[j].content]
      <3> SUFFICES ASSUME NEW j \in Keys, keys'[j].state # "none"
                   PROVE  rows'[keys'[j].row] = [key |-> j, content |-> keys'[j].content]
        OBVIOUS
      <3>1. CASE j = k
        BY <1>1, <1>2, <1>3, <3>1 DEF new
      <3>2. CASE j # k
        BY <1>1, <1>2, <1>3, <3>2 DEF AcceptanceInv, TypeOK, KeysNameTheirRows
      <3> QED
        BY <3>1, <3>2
    <2>2. n \notin ended
      BY <1>2 DEF AcceptanceInv, TypeOK
    <2>3. \A m \in DOMAIN rows' :
            m \notin ended <=>
              keys'[rows'[m].key].state = "valid" /\ keys'[rows'[m].key].row = m
      <3> SUFFICES ASSUME NEW m \in DOMAIN rows'
                   PROVE  m \notin ended <=>
                            /\ keys'[rows'[m].key].state = "valid"
                            /\ keys'[rows'[m].key].row = m
        OBVIOUS
      <3>1. CASE m = n
        BY <1>1, <1>2, <1>3, <2>2, <3>1 DEF new
      <3>2. CASE m # n
        <4>1. m \in DOMAIN rows /\ rows'[m] = rows[m] /\ rows[m].key \in Keys
          <5>1. m \in DOMAIN rows /\ rows'[m] = rows[m]
            BY <1>2, <3>2
          <5>2. rows[m] \in [key : Keys, content : Contents]
            BY <1>1, <5>1, ElementOfSeq
          <5> QED
            BY <5>1, <5>2
        <4>2. m \notin ended <=>
                keys[rows[m].key].state = "valid" /\ keys[rows[m].key].row = m
          BY <4>1 DEF AcceptanceInv, KeysNameTheirRows
        <4>3. CASE rows[m].key = k
          BY <1>1, <1>3, <3>2, <4>1, <4>2, <4>3
        <4>4. CASE rows[m].key # k
          BY <1>1, <1>3, <4>1, <4>2, <4>4
        <4> QED
          BY <4>3, <4>4
      <3> QED
        BY <3>1, <3>2
    <2> QED
      BY <2>1, <2>3 DEF KeysNameTheirRows, Insert
  <1>10. RequestsAreComplete'
    BY <1>1, <1>4 DEF AcceptanceInv, RequestsAreComplete, Request
  <1>11. WhatWasFoundHolds'
    <2> SUFFICES ASSUME NEW q \in Procs, req'[q].pc = "write"
                 PROVE  keys'[req'[q].key].state # "valid" /\ ~KeyTaken(q)'
      BY DEF WhatWasFoundHolds, KeyOf
    <2>1. q # p /\ req'[q] = req[q]
      <3>1. req'[p].pc = "answered"
        BY <1>1, <1>4 DEF Request
      <3> QED
        BY <1>1, <1>4, <3>1
    <2>2. req[q].key # k
      BY <2>1 DEF MayWrite, HoldsLock
    <2>3. keys'[req[q].key] = keys[req[q].key]
      BY <1>1, <1>3, <2>2
    <2> QED
      BY <2>1, <2>3 DEF AcceptanceInv, WhatWasFoundHolds, KeyOf, KeyTaken
  <1>12. AnswersAreTrue'
    <2> SUFFICES ASSUME NEW q \in Procs
                 PROVE
        /\ req'[q].answer \in {"new", "duplicate"} =>
             /\ req'[q].row \in DOMAIN rows'
             /\ rows'[req'[q].row] = [key |-> req'[q].key, content |-> req'[q].content]
        /\ req'[q].answer = "new" =>
             \A r \in Procs \ {q} :
               req'[r].answer = "new" => req'[r].row # req'[q].row
        /\ req'[q].answer = "conflict" =>
             \E m \in DOMAIN rows' :
               rows'[m].key = req'[q].key /\ rows'[m].content # req'[q].content
      BY DEF AnswersAreTrue
    <2>1. \A r \in Procs \ {p} : req'[r] = req[r]
      BY <1>1, <1>4
    <2>2. /\ req'[p].answer = answer /\ req'[p].row = row
          /\ req'[p].key = k /\ req'[p].content = req[p].content
      BY <1>1, <1>4 DEF Request
    <2>3. \A r \in Procs \ {p} :
            req[r].answer \in {"new", "duplicate"} => req[r].row \in DOMAIN rows
      BY DEF AcceptanceInv, AnswersAreTrue
    <2>4. CASE q = p
      BY <1>2, <1>5, <2>1, <2>2, <2>3, <2>4 DEF new
    <2>5. CASE q # p
      <3>1. req'[q] = req[q]
        BY <2>1, <2>5
      <3>2. req[q].answer \in {"new", "duplicate"} =>
              /\ req[q].row \in DOMAIN rows'
              /\ rows'[req[q].row] = [key |-> req[q].key, content |-> req[q].content]
        BY <1>2 DEF AcceptanceInv, AnswersAreTrue
      <3>3. ASSUME req[q].answer = "new", NEW o \in Procs \ {q}, req'[o].answer = "new"
            PROVE  req'[o].row # req[q].row
        <4>1. CASE o = p
          <5>1. req'[o].row = n
            BY <1>5, <2>2, <3>3, <4>1
          <5>2. req[q].row \in DOMAIN rows
            BY <2>3, <2>5, <3>3
          <5> QED
            BY <1>2, <5>1, <5>2
        <4>2. CASE o # p
          <5>1. req[o].answer = "new" /\ req'[o].row = req[o].row
            BY <2>1, <3>3, <4>2
          <5>2. AnswersAreTrue
            BY DEF AcceptanceInv
          <5>3. req[o].row # req[q].row
            BY <3>3, <5>1, <5>2 DEF AnswersAreTrue
          <5> QED
            BY <5>1, <5>3
        <4> QED
          BY <4>1, <4>2
      <3>4. req[q].answer = "conflict" =>
              \E m \in DOMAIN rows' :
                rows'[m].key = req[q].key /\ rows'[m].content # req[q].content
        <4> SUFFICES ASSUME req[q].answer = "conflict"
                     PROVE  \E m \in DOMAIN rows' :
                              /\ rows'[m].key = req[q].key
                              /\ rows'[m].content # req[q].content
          OBVIOUS
        <4>1. PICK m \in DOMAIN rows :
                rows[m].key = req[q].key /\ rows[m].content # req[q].content
          BY DEF AcceptanceInv, AnswersAreTrue
        <4>2. m \in DOMAIN rows' /\ rows'[m] = rows[m]
          BY <1>2
        <4> QED
          BY <4>1, <4>2
      <3> QED
        BY <3>1, <3>2, <3>3, <3>4
    <2> QED
      BY <2>4, <2>5
  <1> QED
    BY <1>8, <1>9, <1>10, <1>11, <1>12 DEF AcceptanceInv

\* The locks make the unique index superfluous: a write is never refused.
LEMMA WriteInv ==
  ASSUME AcceptanceInv, NEW p \in Procs, Write(p) PROVE AcceptanceInv'
  <1>1. ~KeyTaken(p)
    BY DEF Write, AcceptanceInv, WhatWasFoundHolds
  <1>2. Insert(p) /\ req' = Answered(p, "new", Len(rows')) /\ UNCHANGED <<ended, losses>>
    BY <1>1 DEF Write
  <1>3. losses' \in 0 .. MaxLosses
    BY <1>2 DEF AcceptanceInv, TypeOK
  <1> QED
    BY <1>2, <1>3, InsertInv DEF Write

LEMMA AbortInv ==
  ASSUME AcceptanceInv, NEW p \in Procs, Abort(p) PROVE AcceptanceInv'
  <1> DEFINE r == [req[p] EXCEPT !.pc = "catch"]
  <1>1. req[p].pc \in {"find", "write"} /\ req' = [req EXCEPT ![p] = r]
    BY InService DEF Abort
  <1>2. r \in Request
    BY <1>1, InService DEF Request
  <1>3. /\ r.key = req[p].key /\ r.content = req[p].content
        /\ r.pc = "catch" /\ r.answer = req[p].answer
    BY <1>1, InService DEF Request
  <1>4. req[p].answer = "none"
    BY <1>1 DEF AcceptanceInv, RequestsAreComplete
  <1> HIDE DEF r
  <1>5. /\ r.key \in Keys /\ r.content \in Contents /\ losses \in 0 .. MaxLosses
        /\ UNCHANGED <<rows, keys, ended, losses>>
    BY <1>1, <1>3, InService DEF Abort
  <1> QED
    BY <1>1, <1>2, <1>3, <1>4, <1>5, RequestStep

LEMMA CatchInv ==
  ASSUME AcceptanceInv, NEW p \in Procs, Catch(p) PROVE AcceptanceInv'
  <1> DEFINE r == [req[p] EXCEPT !.pc = "find", !.left = req[p].left - 1]
  <1>1. req[p].pc = "catch" /\ UNCHANGED <<rows, keys, ended, losses>>
    BY DEF Catch
  <1>2. CASE KeyOf(p).state # "none"
    BY <1>1, <1>2, KnownKeyInv DEF Catch
  <1>3. CASE KeyOf(p).state = "none" /\ req[p].left > 1
    <2>1. req' = [req EXCEPT ![p] = r]
      BY <1>1, <1>3, InService DEF Catch, RetriesLeft
    <2>2. r \in Request
      <3>1. req[p] \in Request
        BY <1>1, InService
      <3> QED
        BY <1>3, <3>1, RetryType
    <2>3. /\ r.key = req[p].key /\ r.content = req[p].content
          /\ r.pc = "find" /\ r.answer = req[p].answer
      BY <1>1, InService DEF Request
    <2>4. req[p].answer = "none"
      BY <1>1 DEF AcceptanceInv, RequestsAreComplete
    <2> HIDE DEF r
    <2>5. r.key \in Keys /\ r.content \in Contents /\ losses \in 0 .. MaxLosses
      BY <1>1, <2>3, InService
    <2> QED
      BY <1>1, <2>1, <2>2, <2>3, <2>4, <2>5, RequestStep
  <1>4. CASE KeyOf(p).state = "none" /\ ~(req[p].left > 1)
    <2>1. req' = Answered(p, "error", NoRow)
      BY <1>4 DEF Catch
    <2> QED
      BY <1>1, <2>1, InService, GiveUpInv
  <1> QED
    BY <1>2, <1>3, <1>4

LEMMA LoseInv ==
  ASSUME AcceptanceInv, NEW p \in Procs, Lose(p) PROVE AcceptanceInv'
  <1>1. /\ req[p].pc # "idle" /\ req' = Answered(p, "lost", NoRow)
        /\ UNCHANGED ended /\ losses' \in 0 .. MaxLosses
    BY DEF Lose, AcceptanceInv, TypeOK
  <1>2. CASE UNCHANGED <<rows, keys>>
    BY <1>1, <1>2, GiveUpInv
  <1>3. CASE /\ req[p].pc = "write" /\ MayWrite(p)
             /\ Len(rows) < MaxRows /\ Insert(p)
    BY <1>1, <1>3, InsertInv
  <1> QED
    BY <1>2, <1>3 DEF Lose

\* A key expires: its row is no longer in force.
LEMMA ExpireInv ==
  ASSUME AcceptanceInv, NEW k \in Keys, Expire(k) PROVE AcceptanceInv'
  <1>1. /\ keys \in [Keys -> KeyRow] /\ keys[k].state = "valid"
        /\ keys' = [keys EXCEPT ![k] = [keys[k] EXCEPT !.state = "expired"]]
        /\ ended' = ended \cup {keys[k].row} /\ UNCHANGED <<rows, req, losses>>
        /\ keys[k].row \in DOMAIN rows
        /\ rows[keys[k].row] = [key |-> k, content |-> keys[k].content]
    BY DEF Expire, AcceptanceInv, TypeOK, KeysNameTheirRows
  <1>2. keys' \in [Keys -> KeyRow]
    BY <1>1 DEF KeyRow
  <1>3. TypeOK'
    BY <1>1, <1>2 DEF AcceptanceInv, TypeOK, KeyRow
  <1>4. KeysNameTheirRows'
    BY <1>1 DEF AcceptanceInv, TypeOK, KeysNameTheirRows, KeyRow
  <1>5. WhatWasFoundHolds'
    BY <1>1 DEF AcceptanceInv, WhatWasFoundHolds, KeyOf, KeyTaken, KeyRow
  <1>6. RequestsAreComplete' /\ AnswersAreTrue'
    BY <1>1 DEF AcceptanceInv, RequestsAreComplete, AnswersAreTrue
  <1> QED
    BY <1>3, <1>4, <1>5, <1>6 DEF AcceptanceInv

LEMMA CleanupInv ==
  ASSUME AcceptanceInv, NEW k \in Keys, Cleanup(k) PROVE AcceptanceInv'
  <1>1. /\ keys \in [Keys -> KeyRow] /\ keys[k].state = "expired"
        /\ keys' = [keys EXCEPT ![k] = NoKeyRow]
        /\ UNCHANGED <<rows, ended, req, losses>>
        /\ \A p \in Procs : req[p].pc = "write" => req[p].key # k
    BY DEF Cleanup, HoldsLock, AcceptanceInv, TypeOK
  <1>2. NoKeyRow \in KeyRow
    BY DEF NoKeyRow, KeyRow, NoRow
  <1>3. TypeOK'
    BY <1>1, <1>2 DEF AcceptanceInv, TypeOK, NoKeyRow
  <1>4. KeysNameTheirRows'
    BY <1>1 DEF AcceptanceInv, TypeOK, KeysNameTheirRows, NoKeyRow
  <1>5. WhatWasFoundHolds'
    BY <1>1 DEF AcceptanceInv, TypeOK, RequestsAreComplete, WhatWasFoundHolds,
                KeyOf, KeyTaken
  <1>6. RequestsAreComplete' /\ AnswersAreTrue'
    BY <1>1 DEF AcceptanceInv, RequestsAreComplete, AnswersAreTrue
  <1> QED
    BY <1>3, <1>4, <1>5, <1>6 DEF AcceptanceInv

LEMMA StepInv == AcceptanceInv /\ [Next]_vars => AcceptanceInv'
  <1> SUFFICES ASSUME AcceptanceInv, [Next]_vars PROVE AcceptanceInv'
    OBVIOUS
  <1>1. CASE UNCHANGED vars
    BY <1>1 DEF vars, AcceptanceInv, TypeOK, RequestsAreComplete,
       KeysNameTheirRows, WhatWasFoundHolds, AnswersAreTrue, KeyOf, KeyTaken
  <1>2. ASSUME NEW p \in Procs, NEW key \in Keys, NEW content \in Contents,
               Send(p, key, content)
        PROVE  AcceptanceInv'
    BY <1>2, SendInv
  <1>3. ASSUME NEW p \in Procs, Find(p) \/ Write(p) \/ Abort(p) \/ Catch(p) \/ Lose(p)
        PROVE  AcceptanceInv'
    BY <1>3, FindInv, WriteInv, AbortInv, CatchInv, LoseInv
  <1>4. ASSUME NEW k \in Keys, Expire(k) \/ Cleanup(k) PROVE AcceptanceInv'
    BY <1>4, ExpireInv, CleanupInv
  <1> QED
    BY <1>1, <1>2, <1>3, <1>4 DEF Next

\* The inductive invariant of the acceptance: keys, rows, locks and answers
\* agree in every reachable state of acceptTrackingUpdateAttempt.
THEOREM AcceptanceInvariant == Spec => []AcceptanceInv
  BY InitInv, StepInv, PTL DEF Spec

\* Rows, keys and requests always have their shapes.
THEOREM AcceptanceTypes == Spec => []TypeOK
  <1>1. AcceptanceInv => TypeOK
    BY DEF AcceptanceInv
  <1> QED
    BY <1>1, AcceptanceInvariant, PTL

\* Repeating a request with its Idempotency-Key, concurrently or later, and
\* however the transactions are aborted, creates no second occurrence.
THEOREM KeysAreIdempotent == Spec => []OneOccurrencePerKey
  <1>1. AcceptanceInv => OneOccurrencePerKey
    BY DEF AcceptanceInv, KeysNameTheirRows, OneOccurrencePerKey
  <1> QED
    BY <1>1, AcceptanceInvariant, PTL

\* A 202 names a row with this key and content, a new row is announced once,
\* and a 409 is for a key once used with another content.
THEOREM AnswersTellTheTruth == Spec => []AnswersAreTrue
  <1>1. AcceptanceInv => AnswersAreTrue
    BY DEF AcceptanceInv
  <1> QED
    BY <1>1, AcceptanceInvariant, PTL

\* SERIALIZABLE keeps what the transaction read until it writes, so that the
\* unique index on (shipmentId, key) never has to refuse an insert.
THEOREM ReadsAreStable == Spec => []WhatWasFoundHolds
  <1>1. AcceptanceInv => WhatWasFoundHolds
    BY DEF AcceptanceInv
  <1> QED
    BY <1>1, AcceptanceInvariant, PTL

-----------------------------------------------------------------------------
(***************************************************************************)
(* The refinement: a step of the transaction asks, answers, or stutters    *)
(***************************************************************************)
Client == [p \in Procs |-> Seen(p)]

\* What a client sees of request r.
View(r) ==
  [pc |-> IF r.pc \in {"idle", "answered"} THEN r.pc ELSE "asking",
   key |-> r.key, content |-> r.content, answer |-> r.answer, row |-> r.row]

LEMMA ClientSees ==
  ASSUME req \in [Procs -> Request], NEW p \in Procs, NEW r,
         req' = [req EXCEPT ![p] = r]
  PROVE  Client' = [Client EXCEPT ![p] = View(r)]
  BY DEF Client, Seen, View

\* A request that goes on in the transaction looks the same.
LEMMA ClientWaits ==
  ASSUME AcceptanceInv, NEW p \in Procs, req[p].pc \in {"find", "write", "catch"},
         NEW r \in Request, r.pc \in {"find", "write", "catch"},
         r.key = req[p].key, r.content = req[p].content,
         r.answer = req[p].answer, r.row = req[p].row,
         req' = [req EXCEPT ![p] = r], UNCHANGED <<rows, keys, ended>>
  PROVE  UNCHANGED Atomic!vars
  <1>1. Client' = [Client EXCEPT ![p] = View(r)]
    BY ClientSees DEF AcceptanceInv, TypeOK
  <1>2. View(r) = Client[p]
    BY DEF View, Client, Seen
  <1>3. Client' = Client
    BY <1>1, <1>2 DEF Client
  <1> QED
    BY <1>3 DEF Atomic!vars, Client

LEMMA ClientHears ==
  ASSUME AcceptanceInv, NEW p \in Procs, req[p].pc \in {"find", "write", "catch"},
         NEW answer, NEW row, req' = Answered(p, answer, row)
  PROVE  /\ Client[p].pc = "asking"
         /\ Client[p].key = req[p].key /\ Client[p].content = req[p].content
         /\ Atomic!Tell(p, answer, row)
  <1> DEFINE r == [req[p] EXCEPT !.pc = "answered", !.answer = answer, !.row = row]
  <1>1. req \in [Procs -> Request] /\ req' = [req EXCEPT ![p] = r]
    BY DEF AcceptanceInv, TypeOK, Answered
  <1>2. View(r) = [pc |-> "answered", key |-> req[p].key,
                   content |-> req[p].content, answer |-> answer, row |-> row]
    BY <1>1 DEF View, Request
  <1> HIDE DEF r
  <1>3. /\ Client[p].pc = "asking"
        /\ Client[p].key = req[p].key /\ Client[p].content = req[p].content
    BY DEF Client, Seen
  <1>4. Client' = [Client EXCEPT ![p] = View(r)]
    BY <1>1, ClientSees
  <1>5. Client' = [Client EXCEPT ![p] =
          [pc |-> "answered", key |-> Client[p].key, content |-> Client[p].content,
           answer |-> answer, row |-> row]]
    BY <1>2, <1>3, <1>4
  <1>6. Atomic!Tell(p, answer, row)
    BY <1>5 DEF Client, Atomic!Tell, Atomic!Becomes
  <1> QED
    BY <1>3, <1>6

LEMMA SendAsks ==
  ASSUME AcceptanceInv, NEW p \in Procs, NEW key \in Keys,
         NEW content \in Contents, Send(p, key, content)
  PROVE  Atomic!Next
  <1> DEFINE r == [pc |-> "find", key |-> key, content |-> content,
                   left |-> Attempts, found |-> NoRow, answer |-> "none",
                   row |-> NoRow]
  <1>1. Client' = [Client EXCEPT ![p] = View(r)]
    BY ClientSees DEF Send, AcceptanceInv, TypeOK
  <1>2. View(r) = [pc |-> "asking", key |-> key, content |-> content,
                   answer |-> "none", row |-> 0]
    BY DEF View, NoRow
  <1>3. Client[p].pc # "asking"
    BY DEF Client, Seen, Send
  <1>4. Atomic!Ask(p, key, content)
    BY <1>1, <1>2, <1>3 DEF Send, Atomic!Ask, Atomic!Becomes, Client
  <1> QED
    BY <1>4 DEF Atomic!Next

LEMMA NamedRow ==
  ASSUME AcceptanceInv, NEW k \in Keys, keys[k].state # "none"
  PROVE  /\ keys[k].row \in DOMAIN rows
         /\ rows[keys[k].row].key = k
         /\ rows[keys[k].row].content = keys[k].content
  <1>1. keys[k].row \in DOMAIN rows
    BY DEF AcceptanceInv, TypeOK
  <1>2. rows[keys[k].row] = [key |-> k, content |-> keys[k].content]
    BY DEF AcceptanceInv, KeysNameTheirRows
  <1> QED
    BY <1>1, <1>2

LEMMA KnownKeyRepeats ==
  ASSUME AcceptanceInv, NEW p \in Procs, req[p].pc \in {"find", "catch"},
         KeyOf(p).state # "none", req' = KnownKeyAnswer(p),
         UNCHANGED <<rows, keys, ended>>
  PROVE  Atomic!Next
  <1> DEFINE k == req[p].key
             Named == [j \in Keys |-> keys[j].row]
  <1>1. /\ k \in Keys /\ keys[k].row \in DOMAIN rows /\ keys[k].row # 0
        /\ rows[keys[k].row].content = keys[k].content
    <2>1. k \in Keys /\ keys[k].state # "none"
      BY InService
    <2>2. /\ keys[k].row \in DOMAIN rows
          /\ rows[keys[k].row].content = keys[k].content
      BY <2>1, NamedRow
    <2>3. 0 \notin DOMAIN rows
      BY DEF AcceptanceInv, TypeOK
    <2> QED
      BY <2>1, <2>2, <2>3
  <1>2. /\ Client[p].pc = "asking" /\ Client[p].key = k
        /\ Client[p].content = req[p].content /\ Named[k] = keys[k].row
    BY <1>1 DEF Client, Seen
  <1>3. IF rows[Named[k]].content = Client[p].content
          THEN Atomic!Tell(p, "duplicate", Named[k]) ELSE Atomic!Tell(p, "conflict", 0)
    <2>1. CASE keys[k].content = req[p].content
      <3>1. req' = Answered(p, "duplicate", keys[k].row)
        BY <2>1 DEF KnownKeyAnswer, KeyOf
      <3> QED
        BY <1>1, <1>2, <2>1, <3>1, ClientHears
    <2>2. CASE keys[k].content # req[p].content
      <3>1. req' = Answered(p, "conflict", 0)
        BY <2>2 DEF KnownKeyAnswer, KeyOf, NoRow
      <3> QED
        BY <1>1, <1>2, <2>2, <3>1, ClientHears
    <2> QED
      BY <2>1, <2>2
  <1>4. Atomic!Repeat(p)
    BY <1>1, <1>2, <1>3 DEF Atomic!Repeat, Client
  <1> QED
    BY <1>4 DEF Atomic!Next

LEMMA InsertAccepts ==
  ASSUME AcceptanceInv, NEW p \in Procs, req[p].pc = "write", Insert(p),
         UNCHANGED ended, NEW answer, NEW row,
         req' = Answered(p, answer, row),
         \/ answer = "new" /\ row = Len(rows')
         \/ answer = "lost" /\ row = 0
  PROVE  Atomic!Next
  <1> DEFINE k == req[p].key
             new == [key |-> k, content |-> req[p].content]
  <1>1. PICK n \in Nat : n = Len(rows) + 1
    BY DEF AcceptanceInv, TypeOK
  <1>2. /\ rows' = Append(rows, new) /\ Len(rows') = n
        /\ DOMAIN rows' = DOMAIN rows \cup {n} /\ n \notin DOMAIN rows
        /\ keys' = [keys EXCEPT ![k] =
             [state |-> "valid", content |-> req[p].content, row |-> n]]
    BY <1>1 DEF Insert, AcceptanceInv, TypeOK
  <1>3. /\ Client[p].pc = "asking" /\ Client[p].key = k
        /\ Client[p].content = req[p].content
        /\ Atomic!Tell(p, answer, row)
    BY ClientHears
  <1>4. \A m \in DOMAIN rows \ ended : rows[m].key # k
    BY DEF AcceptanceInv, WhatWasFoundHolds, KeysNameTheirRows, KeyOf
  <1>5. DOMAIN rows' \ ended' = (DOMAIN rows \ ended) \cup {n}
    BY <1>2 DEF AcceptanceInv, TypeOK
  <1>6. [j \in Keys |-> keys'[j].row]
          = [[j \in Keys |-> keys[j].row] EXCEPT ![k] = n]
    BY <1>2 DEF AcceptanceInv, TypeOK
  <1>7. Atomic!AcceptNew(p)
    BY <1>1, <1>2, <1>3, <1>4, <1>5, <1>6 DEF Atomic!AcceptNew, Client
  <1> QED
    BY <1>7 DEF Atomic!Next

LEMMA GiveUpTells ==
  ASSUME AcceptanceInv, NEW p \in Procs, req[p].pc \in {"find", "write", "catch"},
         NEW answer \in {"error", "lost"}, req' = Answered(p, answer, NoRow),
         UNCHANGED <<rows, keys, ended>>
  PROVE  Atomic!Next
  <1>1. Client[p].pc = "asking" /\ Atomic!Tell(p, answer, 0)
    BY ClientHears DEF NoRow
  <1>2. Atomic!GiveUp(p)
    BY <1>1 DEF Atomic!GiveUp, Client
  <1> QED
    BY <1>2 DEF Atomic!Next

LEMMA ServeImplements ==
  ASSUME AcceptanceInv, NEW p \in Procs,
         Find(p) \/ Write(p) \/ Abort(p) \/ Catch(p) \/ Lose(p)
  PROVE  [Atomic!Next]_(Atomic!vars)
  <1>1. CASE Find(p)
    <2>1. CASE InForce(p)
      BY <1>1, <2>1, KnownKeyRepeats DEF Find, InForce
    <2>2. CASE ~InForce(p)
      <3>1. req[p] \in Request /\ KeyOf(p).row \in 0 .. MaxRows
        BY <1>1, InService DEF Find, KeyRow
      <3> DEFINE r == [req[p] EXCEPT !.pc = "write", !.found = KeyOf(p).row]
      <3>2. r \in Request
        BY <3>1, FoundType
      <3>3. /\ r.pc = "write" /\ r.key = req[p].key /\ r.content = req[p].content
            /\ r.answer = req[p].answer /\ r.row = req[p].row
        BY <3>1 DEF Request
      <3>4. /\ req' = [req EXCEPT ![p] = r] /\ req[p].pc = "find"
            /\ UNCHANGED <<rows, keys, ended>>
        BY <1>1, <2>2, InService DEF Find
      <3> QED
        BY <3>2, <3>3, <3>4, ClientWaits
    <2> QED
      BY <2>1, <2>2
  <1>2. CASE Write(p)
    <2>1. Insert(p) /\ req' = Answered(p, "new", Len(rows')) /\ UNCHANGED ended
      BY <1>2 DEF Write, AcceptanceInv, WhatWasFoundHolds
    <2> QED
      BY <1>2, <2>1, InsertAccepts DEF Write
  <1>3. CASE Abort(p)
    <2>1. req[p] \in Request
      BY <1>3, InService DEF Abort
    <2>2. [req[p] EXCEPT !.pc = "catch"] \in Request
      BY <2>1 DEF Request
    <2> QED
      BY <1>3, <2>1, <2>2, ClientWaits DEF Abort, Request
  <1>4. CASE Catch(p)
    <2>1. CASE KeyOf(p).state # "none"
      BY <1>4, <2>1, KnownKeyRepeats DEF Catch
    <2>2. CASE KeyOf(p).state = "none" /\ req[p].left > 1
      <3>1. req[p] \in Request
        BY <1>4, InService DEF Catch
      <3>2. [req[p] EXCEPT !.pc = "find", !.left = req[p].left - 1] \in Request
        BY <2>2, <3>1, RetryType
      <3> QED
        BY <1>4, <2>2, <3>1, <3>2, ClientWaits DEF Catch, RetriesLeft, Request
    <2>3. CASE KeyOf(p).state = "none" /\ ~(req[p].left > 1)
      BY <1>4, <2>3, GiveUpTells DEF Catch
    <2> QED
      BY <2>1, <2>2, <2>3
  <1>5. CASE Lose(p)
    <2>1. CASE UNCHANGED <<rows, keys>>
      BY <1>5, <2>1, GiveUpTells DEF Lose
    <2>2. CASE req[p].pc = "write" /\ Insert(p)
      BY <1>5, <2>2, InsertAccepts DEF Lose, NoRow
    <2> QED
      BY <1>5, <2>1, <2>2 DEF Lose
  <1> QED
    BY <1>1, <1>2, <1>3, <1>4, <1>5

LEMMA KeysImplement ==
  ASSUME AcceptanceInv, NEW k \in Keys, Expire(k) \/ Cleanup(k)
  PROVE  Atomic!Next
  <1>1. keys \in [Keys -> KeyRow] /\ UNCHANGED <<rows, req>>
    BY DEF AcceptanceInv, TypeOK, Expire, Cleanup
  <1>2. Client' = Client
    BY <1>1 DEF Client, Seen
  <1>3. CASE Expire(k)
    <2> DEFINE n == keys[k].row
    <2>1. /\ keys[k].state = "valid" /\ ended' = ended \cup {n}
          /\ \A j \in Keys : keys'[j].row = keys[j].row
      BY <1>1, <1>3 DEF Expire, KeyRow
    <2>2. n \in DOMAIN rows /\ rows[n].key = k
      BY <2>1, NamedRow
    <2>3. n \in DOMAIN rows \ ended
      BY <2>1, <2>2 DEF AcceptanceInv, KeysNameTheirRows
    <2>4. Atomic!Expire(n)
      BY <1>1, <1>2, <2>1 DEF Atomic!Expire, Client
    <2> QED
      BY <2>3, <2>4 DEF Atomic!Next
  <1>4. CASE Cleanup(k)
    <2>1. keys[k].row \in ended
      <3> DEFINE n == keys[k].row
      <3>1. keys[k].state = "expired"
        BY <1>4 DEF Cleanup
      <3>2. n \in DOMAIN rows /\ rows[n].key = k
        BY <3>1, NamedRow
      <3> QED
        BY <3>1, <3>2 DEF AcceptanceInv, KeysNameTheirRows
    <2>2. [j \in Keys |-> keys'[j].row]
            = [[j \in Keys |-> keys[j].row] EXCEPT ![k] = 0]
      BY <1>1, <1>4 DEF Cleanup, NoKeyRow, NoRow
    <2>3. Atomic!Forget(k)
      BY <1>1, <1>2, <1>4, <2>1, <2>2 DEF Cleanup, Atomic!Forget, Client
    <2> QED
      BY <2>3 DEF Atomic!Next
  <1> QED
    BY <1>3, <1>4

LEMMA StepImplements ==
  ASSUME AcceptanceInv, [Next]_vars PROVE [Atomic!Next]_(Atomic!vars)
  <1>1. CASE UNCHANGED vars
    BY <1>1 DEF vars, Atomic!vars, Seen
  <1> QED
    BY <1>1, SendAsks, ServeImplements, KeysImplement DEF Next

\* acceptTrackingUpdateAttempt, its retries and its look at the key after an
\* abort answer every request as one atomic step would, whatever the other
\* requests, the cleanup and the deadlocks do in between.
THEOREM AcceptanceIsAtomic == Spec => AcceptsAtomically
  <1>1. Init => Atomic!Init
    BY DEF Init, Atomic!Init, NoKeyRow, NoRow, Seen
  <1>2. AcceptanceInv /\ [Next]_vars => [Atomic!Next]_(Atomic!vars)
    BY StepImplements
  <1> QED
    BY <1>1, <1>2, AcceptanceInvariant, PTL
    DEF Spec, AcceptsAtomically, Atomic!Spec

-----------------------------------------------------------------------------
(***************************************************************************)
(* Retries are bounded: the safety part of EveryRequestIsAnswered          *)
(***************************************************************************)
InTransaction == {"find", "write", "catch"}

\* An upper bound on the steps that request p can still take.
StepsLeft(p) ==
  CASE req[p].pc = "find"  -> 3 * req[p].left + 3
    [] req[p].pc = "write" -> 3 * req[p].left + 2
    [] req[p].pc = "catch" -> 3 * req[p].left + 1
    [] OTHER               -> 0

\* A step of a request, even as the victim of a deadlock, brings its answer
\* nearer, and nobody else's step takes it further away.
AnswersDrawNearer ==
  [][\A p \in Procs : req[p].pc \in InTransaction =>
       /\ StepsLeft(p) <= 3 * Attempts + 3
       /\ StepsLeft(p)' <= StepsLeft(p)
       /\ Serve(p) => StepsLeft(p)' < StepsLeft(p)]_vars

LEMMA OthersWait ==
  ASSUME AcceptanceInv, [Next]_vars, NEW p \in Procs,
         req[p].pc \in InTransaction
  PROVE  req'[p] = req[p] \/ Serve(p) \/ Lose(p)
  <1>1. req \in [Procs -> Request]
    BY DEF AcceptanceInv, TypeOK
  <1>2. ASSUME NEW q \in Procs, q # p,
               \/ \E key \in Keys, content \in Contents : Send(q, key, content)
               \/ Find(q) \/ Write(q) \/ Abort(q) \/ Catch(q) \/ Lose(q)
        PROVE  req'[p] = req[p]
    BY <1>1, <1>2 DEF Send, Find, Write, Abort, Catch, Lose, KnownKeyAnswer, Answered
  <1>3. ASSUME NEW key \in Keys, NEW content \in Contents, Send(p, key, content)
        PROVE  FALSE
    BY <1>3 DEF Send, InTransaction
  <1>4. ASSUME NEW k \in Keys, Expire(k) \/ Cleanup(k)
        PROVE  req'[p] = req[p]
    BY <1>4 DEF Expire, Cleanup
  <1> QED
    BY <1>2, <1>3, <1>4 DEF Next, Serve, vars

LEMMA ServeDrawsNearer ==
  ASSUME AcceptanceInv, NEW p \in Procs, req[p].pc \in InTransaction,
         Serve(p) \/ Lose(p)
  PROVE  StepsLeft(p)' < StepsLeft(p)
  <1>1. /\ req \in [Procs -> Request] /\ req[p].left \in 0 .. 3
        /\ StepsLeft(p) > 3 * req[p].left
    BY DEF AcceptanceInv, TypeOK, Request, InTransaction, StepsLeft
  <1>2. ASSUME NEW answer, NEW row, req' = Answered(p, answer, row)
        PROVE  StepsLeft(p)' < StepsLeft(p)
    <2>1. req'[p].pc = "answered"
      BY <1>1, <1>2 DEF Answered, Request
    <2> QED
      BY <1>1, <2>1 DEF StepsLeft
  <1>3. CASE Find(p) /\ ~InForce(p)
    <2>1. req[p].pc = "find" /\ req'[p].pc = "write" /\ req'[p].left = req[p].left
      BY <1>1, <1>3 DEF Find, Request
    <2> QED
      BY <1>1, <2>1 DEF StepsLeft
  <1>4. CASE Write(p)
    <2>1. req' = Answered(p, "new", Len(rows'))
      BY <1>4 DEF Write, AcceptanceInv, WhatWasFoundHolds
    <2> QED
      BY <1>2, <2>1
  <1>5. CASE Abort(p)
    <2>1. /\ req[p].pc \in {"find", "write"} /\ req'[p].pc = "catch"
          /\ req'[p].left = req[p].left
      BY <1>1, <1>5 DEF Abort, Request
    <2> QED
      BY <1>1, <2>1 DEF StepsLeft
  <1>6. CASE Catch(p) /\ KeyOf(p).state = "none" /\ req[p].left > 1
    <2>1. /\ req[p].pc = "catch" /\ req'[p].pc = "find"
          /\ req'[p].left = req[p].left - 1
      BY <1>1, <1>6 DEF Catch, RetriesLeft, Request
    <2> QED
      BY <1>1, <2>1 DEF StepsLeft
  <1> QED
    BY <1>2, <1>3, <1>4, <1>5, <1>6
    DEF Serve, Find, Catch, Lose, KnownKeyAnswer

\* A request is answered after at most a dozen steps of its own: the attempts
\* of acceptTrackingUpdateAttempt are counted through every abort.
THEOREM RetriesAreBounded == Spec => AnswersDrawNearer
  <1>1. ASSUME AcceptanceInv, [Next]_vars, NEW p \in Procs,
               req[p].pc \in InTransaction
        PROVE  /\ StepsLeft(p) <= 3 * Attempts + 3
               /\ StepsLeft(p)' <= StepsLeft(p)
               /\ Serve(p) => StepsLeft(p)' < StepsLeft(p)
    <2>1. StepsLeft(p) \in Nat /\ StepsLeft(p) <= 3 * Attempts + 3
      <3>1. req[p].left \in 0 .. 3
        BY <1>1 DEF AcceptanceInv, TypeOK, Request
      <3> QED
        BY <1>1, <3>1 DEF InTransaction, StepsLeft
    <2>2. CASE req'[p] = req[p] /\ ~Serve(p)
      BY <2>1, <2>2 DEF StepsLeft
    <2>3. CASE Serve(p) \/ Lose(p)
      <3>1. StepsLeft(p)' \in Nat
        <4>1. AcceptanceInv'
          BY <1>1, StepInv
        <4>2. req'[p].left \in 0 .. 3
          BY <4>1 DEF AcceptanceInv, TypeOK, Request
        <4> QED
          BY <4>2 DEF StepsLeft
      <3> QED
        BY <1>1, <2>1, <2>3, <3>1, ServeDrawsNearer
    <2> QED
      BY <1>1, <2>2, <2>3, OthersWait
  <1>2. AcceptanceInv /\ [Next]_vars =>
          [\A p \in Procs : req[p].pc \in InTransaction =>
             /\ StepsLeft(p) <= 3 * Attempts + 3
             /\ StepsLeft(p)' <= StepsLeft(p)
             /\ Serve(p) => StepsLeft(p)' < StepsLeft(p)]_vars
    BY <1>1
  <1> QED
    BY <1>2, AcceptanceInvariant, PTL DEF Spec, AnswersDrawNearer
=============================================================================
