---------------------------- MODULE RecordProofs ----------------------------
(* Any number of documents, tyre sets, vehicles and requests: what is offered   *)
(* was checked and stays what it is, a car wears one set of tyres, a plate is on *)
(* one car and the checks before the index answer first, and what is told of a    *)
(* vehicle's past is told once.                                                  *)
EXTENDS MCDesk, TLAPS, FiniteSetTheorems

(* Documents. The link takes other bytes at any time. But a document whose       *)
(* object was replaced once a finalisation had found it there is one of          *)
(* rewritten, and of all others whatever a request found out about the object    *)
(* stays true until it writes, and after.                                        *)

DocRows == [status : {"NONE", "PENDING", "AVAILABLE", "QUARANTINED", "DELETED"},
            gone : BOOLEAN, summed : BOOLEAN]
DocCalls == [pc : {"rest", "head", "magic", "sum", "quarantine", "publish", "remove"},
             op : {"none", "finalise", "remove"}, id : Docs \cup {NoDoc}, row : DocRows]

DocTypes ==
  /\ doc \in [Docs -> DocRows]
  /\ object \in [Docs -> [there : BOOLEAN, bytes : Bytes]]
  /\ link \in [Docs -> BOOLEAN]
  /\ call \in [Finalisers -> DocCalls]
  /\ rewritten \subseteq Docs

\* No object and no link before the row.
OneSession ==
  \A d \in Docs : doc[d].status = "NONE" => ~object[d].there /\ ~link[d] /\ ~doc[d].gone

Good(d) == AsDeclared(d)
Bad(d) == object[d].there /\ ~AsDeclared(d)

\* What a request has found out about the object so far.
Knows(pc, d) ==
  /\ pc = "magic" => object[d].there /\ object[d].bytes.size
  /\ pc = "sum" => /\ object[d].there /\ object[d].bytes.size /\ object[d].bytes.type
                   /\ doc[d].summed
  /\ pc = "publish" => Good(d)
  /\ pc = "quarantine" => Bad(d)

CallsKnow ==
  \A f \in Finalisers : call[f].pc # "rest" =>
    /\ call[f].id \in Docs /\ doc[call[f].id].status # "NONE"
    /\ call[f].row.summed = doc[call[f].id].summed
    /\ call[f].id \notin rewritten => Knows(call[f].pc, call[f].id)

Verdicts ==
  /\ \A d \in Docs : doc[d].status = "DELETED" => doc[d].gone
  /\ \A d \in Docs \ rewritten :
       /\ doc[d].status = "AVAILABLE" => Good(d)
       /\ doc[d].status = "QUARANTINED" => Bad(d)

DocInv == DocTypes /\ OneSession /\ CallsKnow /\ Verdicts

LEMMA DocInitial == DocInit => DocInv
<1> SUFFICES ASSUME DocInit PROVE DocInv
  OBVIOUS
<1>1. NoDocRow \in DocRows /\ NoBytes \in Bytes
  BY DEF NoDocRow, DocRows, NoBytes, Bytes
<1>2. NoCall \in DocCalls
  BY <1>1 DEF NoCall, DocCalls
<1>3. DocTypes
  BY <1>1, <1>2 DEF DocInit, DocTypes
<1>4. OneSession /\ CallsKnow /\ Verdicts
  BY DEF DocInit, OneSession, CallsKnow, Verdicts, NoDocRow, NoCall
<1> QED BY <1>3, <1>4 DEF DocInv

\* A request goes on, and what it then knows is so.
LEMMA DocCallMoves ==
  ASSUME DocInv, UNCHANGED <<doc, object, link, rewritten>>, NEW f \in Finalisers, NEW c \in DocCalls,
         call' = [call EXCEPT ![f] = c],
         c.pc # "rest" => /\ c.id \in Docs /\ doc[c.id].status # "NONE"
                          /\ c.row.summed = doc[c.id].summed
                          /\ c.id \notin rewritten => Knows(c.pc, c.id)
  PROVE  DocInv'
<1>1. DocTypes'
  BY DEF DocInv, DocTypes
<1>2. OneSession' /\ Verdicts'
  BY DEF DocInv, OneSession, Verdicts, Good, Bad, AsDeclared
<1>3. \A pc, d : Knows(pc, d)' <=> Knows(pc, d)
  BY DEF Knows, Good, Bad, AsDeclared
<1>4. \A g \in Finalisers : call'[g] = IF g = f THEN c ELSE call[g]
  BY DEF DocInv, DocTypes
<1>5. CallsKnow'
  BY <1>3, <1>4 DEF DocInv, CallsKnow, Knows, Good, Bad, AsDeclared
<1> QED BY <1>1, <1>2, <1>5 DEF DocInv

\* A request writes its row's status and ends.
LEMMA DocCallWrites ==
  ASSUME DocInv, UNCHANGED <<object, link, rewritten>>, NEW f \in Finalisers, call' = [call EXCEPT ![f] = NoCall],
         NEW d \in Docs, NEW r \in DocRows, doc' = [doc EXCEPT ![d] = r], doc[d].status # "NONE",
         r.status # "NONE", r.summed = doc[d].summed, doc[d].gone => r.gone,
         d \notin rewritten /\ r.status = "AVAILABLE" => Good(d),
         d \notin rewritten /\ r.status = "QUARANTINED" => Bad(d),
         r.status = "DELETED" => r.gone
  PROVE  DocInv'
<1>1. NoCall \in DocCalls /\ NoCall.pc = "rest"
  BY DEF NoCall, DocCalls, NoDocRow, DocRows
<1>2. DocTypes'
  BY <1>1 DEF DocInv, DocTypes
<1>3. \A e \in Docs : doc'[e] = IF e = d THEN r ELSE doc[e]
  BY DEF DocInv, DocTypes
<1>4. OneSession'
  BY <1>3 DEF DocInv, OneSession
<1>5. ASSUME NEW e \in Docs
      PROVE  /\ Good(e)' <=> Good(e)
             /\ Bad(e)' <=> Bad(e)
  BY <1>3 DEF Good, Bad, AsDeclared
<1>6. Verdicts'
  BY <1>3, <1>5 DEF DocInv, Verdicts
<1>7. \A g \in Finalisers : call'[g].pc # "rest" => g # f /\ call'[g] = call[g]
  BY <1>1 DEF DocInv, DocTypes
<1>8. \A pc : \A e \in Docs : Knows(pc, e) => Knows(pc, e)'
  BY <1>3, <1>5 DEF Knows
<1>9. CallsKnow'
  BY <1>3, <1>7, <1>8 DEF DocInv, CallsKnow
<1> QED BY <1>2, <1>4, <1>6, <1>9 DEF DocInv

LEMMA ProceedMoves ==
  ASSUME DocInv, NEW f \in Finalisers, call[f].pc # "rest", UNCHANGED <<doc, object, link, rewritten>>,
         NEW pc \in {"magic", "sum", "quarantine", "publish"}, Proceed(f, pc),
         call[f].id \notin rewritten => Knows(pc, call[f].id)
  PROVE  DocInv'
<1> DEFINE c == [call[f] EXCEPT !.pc = pc]
<1>1. call[f] \in DocCalls
  BY DEF DocInv, DocTypes
<1>2. c \in DocCalls /\ c.pc = pc /\ c.id = call[f].id /\ c.row = call[f].row
  BY <1>1 DEF DocCalls
<1>3. call' = [call EXCEPT ![f] = c]
  BY DEF Proceed, SetCall
<1>4. c.id \in Docs /\ doc[c.id].status # "NONE" /\ c.row.summed = doc[c.id].summed
  BY <1>2 DEF DocInv, CallsKnow
<1> HIDE DEF c
<1> QED BY <1>2, <1>3, <1>4, DocCallMoves

LEMMA ReturnMoves ==
  ASSUME DocInv, NEW f \in Finalisers, UNCHANGED <<doc, object, link, rewritten>>, Return(f)
  PROVE  DocInv'
<1>1. NoCall \in DocCalls /\ NoCall.pc = "rest"
  BY DEF NoCall, DocCalls, NoDocRow, DocRows
<1> QED BY <1>1, DocCallMoves DEF Return, SetCall

LEMMA DocStep == DocInv /\ [DocNext]_docVars => DocInv'
<1> SUFFICES ASSUME DocInv, [DocNext]_docVars PROVE DocInv'
  OBVIOUS
<1>0. \A f \in Finalisers : call[f].pc # "rest" =>
        /\ call[f].id \in Docs /\ doc[call[f].id].status # "NONE"
        /\ call[f].row.summed = doc[call[f].id].summed
        /\ call[f].id \notin rewritten => Knows(call[f].pc, call[f].id)
        /\ doc[call[f].id] \in DocRows
  BY DEF DocInv, CallsKnow, DocTypes
<1>1. CASE UNCHANGED docVars
  BY <1>1 DEF docVars, DocInv, DocTypes, OneSession, CallsKnow, Verdicts, Knows, Good, Bad, AsDeclared
<1>2. ASSUME NEW d \in Docs, NEW summed \in BOOLEAN, OpenSession(d, summed) PROVE DocInv'
  <2> DEFINE r == [NoDocRow EXCEPT !.status = "PENDING", !.summed = summed]
  <2>1. r \in DocRows /\ r.status = "PENDING" /\ ~r.gone /\ doc[d].status = "NONE"
    <3>1. NoDocRow \in DocRows /\ NoDocRow.status = "NONE" /\ ~NoDocRow.gone
      BY DEF NoDocRow, DocRows
    <3> QED BY <1>2, <3>1 DEF OpenSession, DocRows
  <2>2. /\ doc' = [doc EXCEPT ![d] = r] /\ link' = [link EXCEPT ![d] = TRUE]
        /\ object' = object /\ call' = call /\ rewritten' = rewritten
    BY <1>2 DEF OpenSession
  <2> HIDE DEF r
  <2>3. DocTypes'
    BY <2>1, <2>2 DEF DocInv, DocTypes
  <2>4. \A e \in Docs \ {d} : doc'[e] = doc[e] /\ link'[e] = link[e]
    BY <2>2 DEF DocInv, DocTypes
  <2>5. doc'[d] = r
    BY <2>2 DEF DocInv, DocTypes
  <2>6. OneSession'
    BY <2>1, <2>2, <2>4, <2>5 DEF DocInv, OneSession
  <2>7. ASSUME NEW e \in Docs \ {d}
        PROVE  /\ Good(e)' <=> Good(e)
               /\ Bad(e)' <=> Bad(e)
    BY <2>2, <2>4 DEF Good, Bad, AsDeclared
  <2>8. Verdicts'
    BY <2>1, <2>2, <2>4, <2>5, <2>7 DEF DocInv, Verdicts
  <2>9. \A pc : \A e \in Docs \ {d} : Knows(pc, e) => Knows(pc, e)'
    BY <2>2, <2>4, <2>7 DEF Knows
  <2>10. CallsKnow'
    BY <2>1, <2>2, <2>4, <2>9 DEF DocInv, CallsKnow
  <2> QED BY <2>3, <2>6, <2>8, <2>10 DEF DocInv
<1>3. ASSUME NEW d \in Docs, NEW bytes \in Bytes, PutBytes(d, bytes) PROVE DocInv'
  <2>1. /\ object' = [object EXCEPT ![d] = [there |-> TRUE, bytes |-> bytes]]
        /\ doc' = doc /\ link' = link /\ call' = call /\ link[d]
        /\ rewritten' \in {rewritten, rewritten \cup {d}}
    BY <1>3 DEF PutBytes
  <2>2. DocTypes'
    BY <2>1 DEF DocInv, DocTypes
  <2>3. OneSession'
    BY <2>1 DEF DocInv, DocTypes, OneSession
  <2>4. ASSUME NEW e \in Docs \ rewritten'
        PROVE  /\ e \notin rewritten
               /\ \/ object'[e] = object[e]
                  \/ ~object[e].there
                  \/ doc[e].status = "PENDING" /\ ~Examined(e)
    <3>1. CASE e # d
      BY <2>1, <3>1 DEF DocInv, DocTypes
    <3>2. CASE e = d
      <4>1. object[d] \in [there : BOOLEAN, bytes : Bytes] /\ object'[d] = [there |-> TRUE, bytes |-> bytes]
        BY <2>1 DEF DocInv, DocTypes
      <4>2. \/ ~(Examined(d) \/ doc[d].status # "PENDING")
            \/ ~object[d].there
            \/ object[d].bytes = bytes
        BY <1>3, <3>2 DEF PutBytes
      <4>3. object[d].there /\ object[d].bytes = bytes => object'[d] = object[d]
        BY <4>1
      <4> QED BY <2>1, <3>2, <4>2, <4>3
    <3> QED BY <3>1, <3>2
  <2>5. ASSUME NEW e \in Docs \ rewritten'
        PROVE  \/ \A pc : Knows(pc, e) => Knows(pc, e)'
               \/ ~object[e].there
               \/ doc[e].status = "PENDING" /\ ~Examined(e)
    BY <2>1, <2>4 DEF Knows, Good, Bad, AsDeclared
  <2>6. ASSUME NEW f \in Finalisers, call'[f].pc # "rest", call[f].id \notin rewritten'
        PROVE  Knows(call[f].pc, call[f].id)'
    <3>1. PICK e \in Docs : e = call[f].id
      BY <1>0, <2>1, <2>6
    <3>2. Knows(call[f].pc, e)
      BY <1>0, <2>1, <2>4, <2>6, <3>1
    <3>3. CASE call[f].pc \notin {"magic", "sum", "quarantine", "publish"}
      BY <2>1, <3>1, <3>3 DEF Knows
    <3>4. CASE call[f].pc \in {"magic", "sum", "quarantine", "publish"}
      <4>1. object[e].there /\ Examined(e)
        BY <3>1, <3>2, <3>4 DEF Knows, Good, Bad, AsDeclared, Examined
      <4> QED BY <2>1, <2>5, <2>6, <3>1, <3>2, <4>1
    <3> QED BY <3>3, <3>4
  <2>7. CallsKnow'
    BY <1>0, <2>1, <2>6 DEF DocInv, CallsKnow
  <2>8. Verdicts'
    <3>1. \A e \in Docs : doc'[e].status = "DELETED" => doc'[e].gone
      BY <2>1 DEF DocInv, Verdicts
    <3>2. ASSUME NEW e \in Docs \ rewritten'
          PROVE  /\ doc'[e].status = "AVAILABLE" => Good(e)'
                 /\ doc'[e].status = "QUARANTINED" => Bad(e)'
      <4>1. /\ doc[e].status = "AVAILABLE" => Good(e)
            /\ doc[e].status = "QUARANTINED" => Bad(e)
        BY <2>4 DEF DocInv, Verdicts
      <4>2. CASE object'[e] = object[e]
        BY <2>1, <4>1, <4>2 DEF Good, Bad, AsDeclared
      <4>3. CASE ~object[e].there
        BY <2>1, <4>1, <4>3 DEF Good, Bad, AsDeclared
      <4>4. CASE doc[e].status = "PENDING"
        BY <2>1, <4>4
      <4> QED BY <2>4, <4>2, <4>3, <4>4
    <3> QED BY <3>1, <3>2 DEF Verdicts
  <2> QED BY <2>2, <2>3, <2>7, <2>8 DEF DocInv
<1>4. ASSUME NEW d \in Docs, LinkExpires(d) PROVE DocInv'
  <2>1. link' = [link EXCEPT ![d] = FALSE] /\ UNCHANGED <<doc, object, call, rewritten>>
    BY <1>4 DEF LinkExpires
  <2>2. DocTypes'
    BY <2>1 DEF DocInv, DocTypes
  <2>3. OneSession'
    BY <2>1 DEF DocInv, DocTypes, OneSession
  <2>4. CallsKnow' /\ Verdicts'
    BY <2>1 DEF DocInv, CallsKnow, Verdicts, Knows, Good, Bad, AsDeclared
  <2> QED BY <2>2, <2>3, <2>4 DEF DocInv
<1>5. ASSUME NEW f \in Finalisers, NEW d \in Docs, Finalise(f, d) \/ RemoveRead(f, d) PROVE DocInv'
  <2>1. PICK pc \in {"head", "remove"}, op \in {"finalise", "remove"} :
          call' = [call EXCEPT ![f] = [pc |-> pc, op |-> op, id |-> d, row |-> doc[d]]]
    BY <1>5 DEF Finalise, RemoveRead, SetCall
  <2> DEFINE c == [pc |-> pc, op |-> op, id |-> d, row |-> doc[d]]
  <2>2. c \in DocCalls /\ c.pc \in {"head", "remove"} /\ c.id = d /\ c.row = doc[d]
    BY DEF DocInv, DocTypes, DocCalls
  <2>3. doc[d].status # "NONE" /\ UNCHANGED <<doc, object, link, rewritten>>
    BY <1>5 DEF Finalise, RemoveRead, Visible
  <2>4. call' = [call EXCEPT ![f] = c]
    BY <2>1
  <2> HIDE DEF c
  <2>5. Knows(c.pc, c.id)
    BY <2>2 DEF Knows
  <2> QED BY <2>2, <2>3, <2>4, <2>5, DocCallMoves
<1>6. ASSUME NEW f \in Finalisers, CheckHead(f) PROVE DocInv'
  <2>1. CASE Return(f)
    BY <1>6, <2>1, ReturnMoves DEF CheckHead
  <2>2. CASE /\ Proceed(f, "quarantine") /\ object[call[f].id].there /\ ~object[call[f].id].bytes.size
    <3>1. Knows("quarantine", call[f].id)
      BY <2>2 DEF Knows, Bad, AsDeclared
    <3> QED BY <1>6, <2>2, <3>1, ProceedMoves DEF CheckHead
  <2>3. CASE /\ Proceed(f, "magic") /\ object[call[f].id].there /\ object[call[f].id].bytes.size
    <3>1. Knows("magic", call[f].id)
      BY <2>3 DEF Knows, Good, Bad, AsDeclared
    <3> QED BY <1>6, <2>3, <3>1, ProceedMoves DEF CheckHead
  <2> QED BY <1>6, <2>1, <2>2, <2>3 DEF CheckHead, Absent
<1>7. ASSUME NEW f \in Finalisers, CheckMagic(f) \/ CheckSum(f) PROVE DocInv'
  <2>1. PICK d \in Docs : d = call[f].id
    BY <1>0, <1>7 DEF CheckMagic, CheckSum
  <2>2. /\ d \notin rewritten => Knows(call[f].pc, d)
        /\ call[f].row.summed = doc[d].summed
        /\ call[f].pc \in {"magic", "sum"} /\ UNCHANGED <<doc, object, link, rewritten>>
    BY <1>0, <1>7, <2>1 DEF CheckMagic, CheckSum
  <2>3. PICK pc \in {"sum", "quarantine", "publish"} : Proceed(f, pc) /\ (d \notin rewritten => Knows(pc, d))
    <3>1. CASE CheckMagic(f)
      BY <2>1, <2>2, <3>1 DEF CheckMagic, AfterMagic, Knows, Good, Bad, AsDeclared
    <3>2. CASE CheckSum(f)
      BY <2>1, <2>2, <3>2 DEF CheckSum, Knows, Good, Bad, AsDeclared
    <3> QED BY <1>7, <3>1, <3>2
  <2> QED BY <2>1, <2>2, <2>3, ProceedMoves
<1>8. ASSUME NEW f \in Finalisers, Quarantine(f) \/ Publish(f) \/ RemoveDocument(f) PROVE DocInv'
  <2>1. PICK d \in Docs : d = call[f].id
    BY <1>0, <1>8 DEF Quarantine, Publish, RemoveDocument
  <2>2. /\ d \notin rewritten => Knows(call[f].pc, d)
        /\ doc[d].status # "NONE" /\ doc[d] \in DocRows
        /\ UNCHANGED <<object, link, rewritten>> /\ call' = [call EXCEPT ![f] = NoCall]
    BY <1>0, <1>8, <2>1 DEF Quarantine, Publish, RemoveDocument, Return, SetCall
  <2>3. PICK r : /\ doc' = [doc EXCEPT ![d] = r] /\ r \in DocRows /\ r.summed = doc[d].summed
                 /\ doc[d].gone => r.gone
                 /\ \/ call[f].pc = "quarantine" /\ r.status = "QUARANTINED"
                    \/ call[f].pc = "publish" /\ r.status = "AVAILABLE"
                    \/ call[f].pc = "remove" /\ r.status = "DELETED" /\ r.gone
    <3>1. ASSUME NEW st \in {"AVAILABLE", "QUARANTINED"}
          PROVE  LET r == [doc[d] EXCEPT !.status = st]
                 IN  r \in DocRows /\ r.summed = doc[d].summed /\ r.gone = doc[d].gone /\ r.status = st
      BY <2>2 DEF DocRows
    <3>2. LET r == [doc[d] EXCEPT !.status = "DELETED", !.gone = TRUE]
          IN  r \in DocRows /\ r.summed = doc[d].summed /\ r.gone /\ r.status = "DELETED"
      BY <2>2 DEF DocRows
    <3>3. CASE Quarantine(f)
      BY <2>1, <3>1, <3>3 DEF Quarantine, SetStatus
    <3>4. CASE Publish(f)
      BY <2>1, <3>1, <3>4 DEF Publish, SetStatus
    <3>5. CASE RemoveDocument(f)
      BY <2>1, <3>2, <3>5 DEF RemoveDocument, Removed
    <3> QED BY <1>8, <3>3, <3>4, <3>5
  <2>4. /\ d \notin rewritten /\ r.status = "AVAILABLE" => Good(d)
        /\ d \notin rewritten /\ r.status = "QUARANTINED" => Bad(d)
    BY <2>2, <2>3 DEF Knows
  <2> QED BY <2>2, <2>3, <2>4, DocCallWrites
<1> HIDE DEF Knows
<1> QED BY <1>1, <1>2, <1>3, <1>4, <1>5, <1>6, <1>7, <1>8 DEF DocNext

LEMMA DocAlways == DocSpec => []DocInv
BY DocInitial, DocStep, PTL DEF DocSpec

\* Whatever uploads, repeated finalisations and removals overlap, and whatever the
\* links are used for until they expire, a document that is offered is stored, has
\* the size and the type it was declared with, and the checksum where one was
\* declared, unless its bytes were replaced once a finalisation had found them.
THEOREM OfferedWasChecked == DocSpec => []OfferedIsChecked
<1>1. DocInv => OfferedIsChecked
  <2> SUFFICES ASSUME DocInv, NEW d \in Docs \ rewritten, Offered(d) PROVE AsDeclared(d)
    BY DEF OfferedIsChecked
  <2>1. doc[d].status = "AVAILABLE" => Good(d)
    BY DEF DocInv, Verdicts
  <2> QED BY <2>1 DEF Offered, Good
<1> QED BY <1>1, DocAlways, PTL

\* What was decided about a document stands: one that was published is never
\* quarantined afterwards, nor the reverse, unless its bytes were replaced meanwhile,
\* and a removed one is never offered again, whatever its bytes, also when the
\* finalisation it overtook writes last.
THEOREM DecisionsStand == DocSpec => DocumentsSettle
<1> DEFINE Stands == \A d \in Docs :
             /\ d \notin rewritten /\ doc[d].status \in {"AVAILABLE", "QUARANTINED"}
                  => doc'[d].status \in {doc[d].status, "DELETED"}
             /\ doc[d].status = "DELETED" \/ doc[d].gone => doc'[d].gone
<1>1. DocInv /\ [DocNext]_docVars => Stands
  <2> SUFFICES ASSUME DocInv, [DocNext]_docVars PROVE Stands
    OBVIOUS
  <2>1. UNCHANGED doc => Stands
    BY DEF DocInv, DocTypes, Verdicts
  <2>2. ASSUME NEW d \in Docs, NEW r, doc' = [doc EXCEPT ![d] = r],
               d \notin rewritten /\ doc[d].status \in {"AVAILABLE", "QUARANTINED"}
                 => r.status \in {doc[d].status, "DELETED"},
               doc[d].gone \/ doc[d].status = "DELETED" => r.gone
        PROVE  Stands
    BY <2>2 DEF DocInv, DocTypes, Verdicts
  <2>3. ASSUME NEW d \in Docs, NEW summed \in BOOLEAN, OpenSession(d, summed)
        PROVE  Stands
    <3>1. doc[d].status = "NONE" /\ ~doc[d].gone
      BY <2>3 DEF OpenSession, NoDocRow
    <3> QED BY <2>2, <2>3, <3>1 DEF OpenSession
  <2>4. ASSUME NEW f \in Finalisers, Quarantine(f) \/ Publish(f) \/ RemoveDocument(f) PROVE Stands
    <3>1. PICK d \in Docs : d = call[f].id
      BY <2>4 DEF Quarantine, Publish, RemoveDocument, DocInv, CallsKnow
    <3>2. /\ d \notin rewritten => Knows(call[f].pc, d)
          /\ doc[d] \in DocRows
          /\ doc[d].status = "DELETED" => doc[d].gone
      BY <2>4, <3>1 DEF Quarantine, Publish, RemoveDocument, DocInv, CallsKnow, DocTypes, Verdicts
    <3>3. d \notin rewritten => /\ doc[d].status = "AVAILABLE" => Good(d)
                                /\ doc[d].status = "QUARANTINED" => Bad(d)
      BY <3>1 DEF DocInv, Verdicts
    <3>4. CASE Quarantine(f)
      <4>1. d \notin rewritten => doc[d].status # "AVAILABLE"
        BY <3>2, <3>4, <3>3 DEF Quarantine, Knows, Good, Bad
      <4>2. doc' = [doc EXCEPT ![d] = [doc[d] EXCEPT !.status = "QUARANTINED"]]
        BY <3>1, <3>4 DEF Quarantine, SetStatus
      <4> QED BY <2>2, <3>2, <4>1, <4>2 DEF DocRows
    <3>5. CASE Publish(f)
      <4>1. d \notin rewritten => doc[d].status # "QUARANTINED"
        BY <3>2, <3>3, <3>5 DEF Publish, Knows, Good, Bad
      <4>2. doc' = [doc EXCEPT ![d] = [doc[d] EXCEPT !.status = "AVAILABLE"]]
        BY <3>1, <3>5 DEF Publish, SetStatus
      <4> QED BY <2>2, <3>2, <4>1, <4>2 DEF DocRows
    <3>6. CASE RemoveDocument(f)
      <4>1. doc' = [doc EXCEPT ![d] = [doc[d] EXCEPT !.status = "DELETED", !.gone = TRUE]]
        BY <3>1, <3>6 DEF RemoveDocument, Removed
      <4> QED BY <2>2, <3>2, <4>1 DEF DocRows
    <3> QED BY <2>4, <3>4, <3>5, <3>6
  <2>5. ASSUME NEW d \in Docs, LinkExpires(d) \/ \E bytes \in Bytes : PutBytes(d, bytes)
        PROVE  UNCHANGED doc
    BY <2>5 DEF PutBytes, LinkExpires
  <2>6. ASSUME NEW f \in Finalisers, \/ CheckHead(f) \/ CheckMagic(f) \/ CheckSum(f)
                                     \/ \E d \in Docs : Finalise(f, d) \/ RemoveRead(f, d)
        PROVE  UNCHANGED doc
    BY <2>6 DEF CheckHead, CheckMagic, CheckSum, Finalise, RemoveRead
  <2>7. UNCHANGED docVars => UNCHANGED doc
    BY DEF docVars
  <2> HIDE DEF Stands
  <2> QED BY <2>1, <2>3, <2>4, <2>5, <2>6, <2>7 DEF DocNext
<1>2. DocInv /\ [DocNext]_docVars
        => [\A d \in Docs \ rewritten : doc[d].status \in {"AVAILABLE", "QUARANTINED"}
              => doc'[d].status \in {doc[d].status, "DELETED"}]_docVars
  BY <1>1
<1>3. DocInv /\ [DocNext]_docVars
        => [\A d \in Docs : doc[d].status = "DELETED" \/ doc[d].gone => ~Offered(d)']_docVars
  BY <1>1 DEF Offered, Visible
<1> QED BY <1>2, <1>3, DocAlways, PTL DEF DocSpec, DocumentsSettle, VerdictStands, RemovedStaysRemoved

----------------------------------------------------------------------------
(* Tyres. As long as nobody wrote over what another request did since it was     *)
(* read, all open periods are one, of a set that is not deleted.                 *)

SetRows == [status : SetStatuses \cup {"NONE"}, gone : BOOLEAN]
PeriodRows == [of : Sets \cup {NoPeriod}, open : BOOLEAN]
Tasks == [pc : {"rest", "find", "fit", "off", "delete"}, of : Sets \cup {NoPeriod},
          found : Periods \cup {NoPeriod}]

TyreTypes ==
  /\ set \in [Sets -> SetRows] /\ period \in [Periods -> PeriodRows]
  /\ task \in [Fitters -> Tasks] /\ crossed \in BOOLEAN
  /\ \A f \in Fitters : /\ task[f].pc # "rest" => task[f].of \in Sets
                        /\ task[f].pc = "off" => task[f].found \in Periods
  /\ \A p \in Periods : period[p].open => period[p].of \in Sets

OneOpen == ~crossed => /\ \A p, q \in Open : p = q
                       /\ \A p \in Open : ~set[period[p].of].gone

TyreInv == TyreTypes /\ OneOpen

LEMMA TyreInitial == TyreInit => TyreInv
<1> SUFFICES ASSUME TyreInit PROVE TyreInv
  OBVIOUS
<1>1. NoSet \in SetRows /\ Unfitted \in PeriodRows /\ ~Unfitted.open
  BY DEF NoSet, SetRows, Unfitted, PeriodRows
<1>2. NoTask \in Tasks /\ NoTask.pc = "rest"
  BY DEF NoTask, Tasks
<1>3. TyreTypes
  BY <1>1, <1>2 DEF TyreInit, TyreTypes
<1> QED BY <1>1, <1>3 DEF TyreInit, TyreInv, OneOpen, Open

\* Storing a set or putting it in use leaves every set as deleted as it was.
LEMMA SetToFacts ==
  ASSUME NEW sets \in [Sets -> SetRows], NEW s, NEW status \in SetStatuses
  PROVE  /\ SetTo(sets, s, status) \in [Sets -> SetRows]
         /\ \A t \in Sets : SetTo(sets, s, status)[t].gone = sets[t].gone
<1>1. ASSUME NEW t \in Sets
      PROVE  LET r == [sets[t] EXCEPT !.status = status] IN r \in SetRows /\ r.gone = sets[t].gone
  BY DEF SetRows
<1> QED BY <1>1 DEF SetTo

LEMMA ClosedFacts ==
  ASSUME NEW periods \in [Periods -> PeriodRows], NEW p
  PROVE  /\ Closed(periods, p) \in [Periods -> PeriodRows]
         /\ \A q \in Periods : /\ Closed(periods, p)[q].of = periods[q].of
                               /\ Closed(periods, p)[q].open <=> periods[q].open /\ q # p
<1>1. ASSUME NEW q \in Periods
      PROVE  LET r == [periods[q] EXCEPT !.open = FALSE]
             IN  r \in PeriodRows /\ r.of = periods[q].of /\ ~r.open
  BY DEF PeriodRows
<1> QED BY <1>1 DEF Closed

\* A request that only goes on or ends.
LEMMA TaskMoves ==
  ASSUME TyreInv, NEW f \in Fitters
  PROVE  /\ \A pc \in {"find", "fit", "off", "delete"}, s \in Sets, p \in Periods \cup {NoPeriod} :
              DoTask(f, pc, s, p) /\ (pc = "off" => p \in Periods) =>
                /\ task' \in [Fitters -> Tasks]
                /\ \A g \in Fitters : /\ task'[g].pc # "rest" => task'[g].of \in Sets
                                      /\ task'[g].pc = "off" => task'[g].found \in Periods
         /\ EndTask(f) => /\ task' \in [Fitters -> Tasks]
                          /\ \A g \in Fitters : /\ task'[g].pc # "rest" => task'[g].of \in Sets
                                                /\ task'[g].pc = "off" => task'[g].found \in Periods
<1>1. ASSUME NEW pc \in {"find", "fit", "off", "delete"}, NEW s \in Sets, NEW p \in Periods \cup {NoPeriod},
             DoTask(f, pc, s, p), pc = "off" => p \in Periods
      PROVE  /\ task' \in [Fitters -> Tasks]
             /\ \A g \in Fitters : /\ task'[g].pc # "rest" => task'[g].of \in Sets
                                   /\ task'[g].pc = "off" => task'[g].found \in Periods
  <2>1. [pc |-> pc, of |-> s, found |-> p] \in Tasks
    BY DEF Tasks
  <2> QED BY <1>1, <2>1 DEF DoTask, TyreInv, TyreTypes
<1>2. NoTask \in Tasks /\ NoTask.pc = "rest"
  BY DEF NoTask, Tasks
<1> QED BY <1>1, <1>2 DEF EndTask, TyreInv, TyreTypes

LEMMA TyreStep == TyreInv /\ [TyreNext]_tyreVars => TyreInv'
<1> SUFFICES ASSUME TyreInv, [TyreNext]_tyreVars PROVE TyreInv'
  OBVIOUS
<1> DEFINE TasksOK == /\ task' \in [Fitters -> Tasks]
                      /\ \A g \in Fitters : /\ task'[g].pc # "rest" => task'[g].of \in Sets
                                            /\ task'[g].pc = "off" => task'[g].found \in Periods
<1>0. UNCHANGED task => TasksOK
  BY DEF TyreInv, TyreTypes
<1>1. CASE UNCHANGED tyreVars
  BY <1>1 DEF tyreVars, TyreInv, TyreTypes, OneOpen, Open
<1>2. ASSUME TasksOK, UNCHANGED <<period, crossed>>, set' \in [Sets -> SetRows],
             \A s \in Sets : set'[s].gone = set[s].gone
      PROVE  TyreInv'
  BY <1>2 DEF TyreInv, TyreTypes, OneOpen, Open
<1>3. ASSUME NEW s \in Sets, AddSet(s) PROVE TyreInv'
  <2>1. NewSet \in SetRows /\ NewSet.gone = NoSet.gone
    BY DEF NewSet, NoSet, SetRows, SetStatuses
  <2>2. set' \in [Sets -> SetRows] /\ \A t \in Sets : set'[t].gone = set[t].gone
    BY <1>3, <2>1 DEF AddSet, TyreInv, TyreTypes
  <2> QED BY <1>0, <1>2, <1>3, <2>2 DEF AddSet
<1>4. ASSUME NEW s \in Sets, NEW status \in SetStatuses, EditSet(s, status) PROVE TyreInv'
  <2>1. set' \in [Sets -> SetRows] /\ \A t \in Sets : set'[t].gone = set[t].gone
    BY <1>4, SetToFacts DEF EditSet, TyreInv, TyreTypes
  <2> QED BY <1>0, <1>2, <1>4, <2>1 DEF EditSet
<1>5. ASSUME TasksOK, UNCHANGED <<set, period, crossed>> PROVE TyreInv'
  BY <1>2, <1>5 DEF TyreInv, TyreTypes
<1>6. ASSUME NEW f \in Fitters, NEW s \in Sets, Fit(f, s) \/ DeleteSet(f, s) PROVE TyreInv'
  <2>1. TasksOK
    BY <1>6, TaskMoves DEF Fit, DeleteSet
  <2> QED BY <1>5, <1>6, <2>1 DEF Fit, DeleteSet
<1>7. ASSUME NEW f \in Fitters, FindReplaced(f) PROVE TyreInv'
  <2>1. TasksOK
    <3>1. PICK p \in Periods \cup {NoPeriod} : DoTask(f, "fit", task[f].of, p)
      BY <1>7 DEF FindReplaced, Open
    <3>2. task[f].of \in Sets
      BY <1>7 DEF FindReplaced, TyreInv, TyreTypes
    <3> QED BY <3>1, <3>2, TaskMoves
  <2> QED BY <1>5, <1>7, <2>1 DEF FindReplaced
<1>8. ASSUME NEW f \in Fitters, NEW s \in Sets, TakeOff(f, s) PROVE TyreInv'
  <2>1. TasksOK
    BY <1>8, TaskMoves DEF TakeOff, OpenOf, Open
  <2> QED BY <1>5, <1>8, <2>1 DEF TakeOff
<1>9. ASSUME NEW f \in Fitters, NEW p \in Periods, FitSet(f, p) PROVE TyreInv'
  <2>1. TasksOK /\ task[f].of \in Sets
    BY <1>9, TaskMoves DEF FitSet, TyreInv, TyreTypes
  <2>2. PICK old, new : old = task[f].found /\ new = task[f].of
    OBVIOUS
  <2>3. /\ Replaced(f) \in [Periods -> PeriodRows]
        /\ \A q \in Periods : /\ Replaced(f)[q].of = period[q].of
                              /\ Replaced(f)[q].open => period[q].open /\ (old \in Periods => q # old)
    <3>1. CASE old = NoPeriod
      BY <2>2, <3>1, TyreConstants DEF Replaced, TyreInv, TyreTypes
    <3>2. CASE old # NoPeriod
      BY <2>2, <3>2, ClosedFacts DEF Replaced, TyreInv, TyreTypes
    <3> QED BY <3>1, <3>2
  <2>4. period' = [Replaced(f) EXCEPT ![p] = [of |-> new, open |-> TRUE]]
    BY <1>9, <2>2 DEF FitSet
  <2>5. [of |-> new, open |-> TRUE] \in PeriodRows
    BY <2>1, <2>2 DEF PeriodRows
  <2>6. /\ period' \in [Periods -> PeriodRows] /\ period'[p].of = new
        /\ \A q \in Periods \ {p} : /\ period'[q].of = period[q].of
                                    /\ period'[q].open => period[q].open /\ q # old
    BY <2>3, <2>4, <2>5
  <2>7. set' \in [Sets -> SetRows] /\ \A t \in Sets : set'[t].gone = set[t].gone
    <3>1. PICK shelf : /\ set' = SetTo(shelf, new, "IN_USE")
                        /\ shelf = IF old = NoPeriod THEN set ELSE SetTo(set, period[old].of, "STORED")
      BY <1>9, <2>2 DEF FitSet
    <3>2. shelf \in [Sets -> SetRows] /\ \A t \in Sets : shelf[t].gone = set[t].gone
      BY <3>1, SetToFacts DEF TyreInv, TyreTypes, SetStatuses
    <3>3. "IN_USE" \in SetStatuses
      BY DEF SetStatuses
    <3> QED BY <3>1, <3>2, <3>3, SetToFacts
  <2>8. crossed' \in BOOLEAN /\ (~crossed' => ~crossed /\ Open \subseteq {old} /\ ~set[new].gone)
    BY <1>9, <2>2 DEF FitSet, Live, TyreInv, TyreTypes
  <2>9. TyreTypes'
    BY <2>1, <2>2, <2>6, <2>7, <2>8 DEF TyreInv, TyreTypes
  <2>10. OneOpen'
    <3> SUFFICES ASSUME ~crossed' PROVE \A q \in Periods : period'[q].open => q = p
      BY <2>1, <2>2, <2>6, <2>7, <2>8 DEF OneOpen, Open
    <3> QED BY <2>6, <2>8 DEF Open
  <2> QED BY <2>9, <2>10 DEF TyreInv
<1>10. ASSUME NEW f \in Fitters, TakenOff(f) PROVE TyreInv'
  <2>1. TasksOK /\ crossed' = crossed
    BY <1>10, TaskMoves DEF TakenOff
  <2>2. /\ period' \in [Periods -> PeriodRows]
        /\ \A q \in Periods : period'[q].of = period[q].of /\ (period'[q].open => period[q].open)
    BY <1>10, ClosedFacts DEF TakenOff, TyreInv, TyreTypes
  <2>3. set' \in [Sets -> SetRows] /\ \A t \in Sets : set'[t].gone = set[t].gone
    <3>1. "STORED" \in SetStatuses
      BY DEF SetStatuses
    <3> QED BY <1>10, <3>1, SetToFacts DEF TakenOff, TyreInv, TyreTypes
  <2> QED BY <2>1, <2>2, <2>3 DEF TyreInv, TyreTypes, OneOpen, Open
<1>11. ASSUME NEW f \in Fitters, SetDeleted(f) PROVE TyreInv'
  <2>1. TasksOK /\ period' = period /\ task[f].of \in Sets
    BY <1>11, TaskMoves DEF SetDeleted, TyreInv, TyreTypes
  <2>2. PICK s \in Sets : s = task[f].of
    BY <2>1
  <2>3. set[s] \in SetRows
    BY DEF TyreInv, TyreTypes
  <2>4. [set[s] EXCEPT !.gone = TRUE] \in SetRows
    BY <2>3 DEF SetRows
  <2>5. set' = [set EXCEPT ![s] = [set[s] EXCEPT !.gone = TRUE]]
    BY <1>11, <2>2 DEF SetDeleted
  <2>6. set' \in [Sets -> SetRows] /\ \A t \in Sets \ {s} : set'[t] = set[t]
    BY <2>4, <2>5 DEF TyreInv, TyreTypes
  <2>7. crossed' \in BOOLEAN /\ (~crossed' => ~crossed /\ OpenOf(s) = {})
    BY <1>11, <2>2 DEF SetDeleted, TyreInv, TyreTypes
  <2>8. TyreTypes'
    BY <2>1, <2>6, <2>7 DEF TyreInv, TyreTypes
  <2>9. OneOpen'
    BY <2>1, <2>6, <2>7 DEF TyreInv, TyreTypes, OneOpen, Open, OpenOf
  <2> QED BY <2>8, <2>9 DEF TyreInv
<1> HIDE DEF TasksOK
<1> QED BY <1>1, <1>3, <1>4, <1>6, <1>7, <1>8, <1>9, <1>10, <1>11 DEF TyreNext

LEMMA TyreAlways == TyreSpec => []TyreInv
BY TyreInitial, TyreStep, PTL DEF TyreSpec

\* Any sequence of swaps, removals, deletions and status edits leaves one set on
\* the car at most and never a deleted one, unless two requests crossed.
LEMMA OneSetWorn == TyreSpec => []CarWearsOneSet
<1>1. ASSUME TyreInv PROVE CarWearsOneSet
  <2> SUFFICES ASSUME ~crossed PROVE Cardinality(Open) <= 1
    BY <1>1 DEF TyreInv, OneOpen, CarWearsOneSet
  <2>1. CASE Open = {}
    <3>1. Cardinality({}) = 0
      BY FS_EmptySet
    <3> QED BY <2>1, <3>1
  <2>2. CASE \E p : Open = {p}
    <3>1. PICK p : Open = {p}
      BY <2>2
    <3>2. Cardinality({p}) = 1
      BY FS_Singleton
    <3> QED BY <3>1, <3>2
  <2>3. \A p, q \in Open : p = q
    BY <1>1 DEF TyreInv, OneOpen
  <2>4. Open = {} \/ \E p : Open = {p}
    BY <2>3
  <2> QED BY <2>1, <2>2, <2>4
<1> QED BY <1>1, TyreAlways, PTL

----------------------------------------------------------------------------
(* The registry. What a request checked about a plate holds until another one    *)
(* writes, and every write marks the requests it overtakes.                      *)

VehicleRows == [plate : Plates \cup {NoPlate}, status : LifeStatuses \cup {"NONE"}, hidden : BOOLEAN]
Errands == [pc : {"rest", "create", "delete", "clash", "restore", "status"}, plate : Plates \cup {NoPlate},
            id : Vehicles \cup {NoPlate}, to : LifeStatuses \cup {"NONE"}, late : BOOLEAN]

\* What a request that is under way may rely on.
ErrandOK(e) ==
  /\ e.pc \in {"delete", "clash", "restore", "status"} => e.id \in Vehicles /\ Exists(e.id)
  /\ e.pc = "status" => e.to \in LifeStatuses
  /\ e.pc \in {"clash", "restore"} => vehicle[e.id].plate = e.plate
  /\ e.pc = "create" /\ ~e.late => Holders(e.plate) = {}
  /\ e.pc = "restore" /\ ~e.late => Holders(e.plate) \subseteq {e.id}

RegistryInv ==
  /\ vehicle \in [Vehicles -> VehicleRows] /\ errand \in [Clerks -> Errands]
  /\ \A c \in Clerks : ErrandOK(errand[c])
  /\ OneVehiclePerPlate /\ NeverSurprised

LEMMA ErrandAtRest == /\ NoErrand \in Errands /\ NoErrand.pc = "rest" /\ ErrandOK(NoErrand)
BY DEF NoErrand, Errands, ErrandOK

LEMMA RegistryInitial == RegistryInit => RegistryInv
<1> SUFFICES ASSUME RegistryInit PROVE RegistryInv
  OBVIOUS
<1>1. NoVehicle \in VehicleRows /\ NoVehicle.status = "NONE"
  BY DEF NoVehicle, VehicleRows
<1>2. OneVehiclePerPlate
  BY <1>1 DEF RegistryInit, OneVehiclePerPlate, Holders, Shown, Exists
<1> QED BY <1>1, <1>2, ErrandAtRest DEF RegistryInit, RegistryInv, NeverSurprised

\* The index: a write it allows leaves one vehicle to a plate.
LEMMA IndexKeepsOne ==
  ASSUME RegistryInv, NEW v \in Vehicles, NEW row \in VehicleRows, IndexAllows(v, row),
         vehicle' = [vehicle EXCEPT ![v] = row]
  PROVE  OneVehiclePerPlate'
<1>1. vehicle'[v] = row /\ \A w \in Vehicles \ {v} : vehicle'[w] = vehicle[w]
  BY DEF RegistryInv
<1> SUFFICES ASSUME NEW plate \in Plates, NEW w \in Vehicles, NEW x \in Vehicles,
                    w \in Holders(plate)', x \in Holders(plate)'
             PROVE  w = x
  BY DEF OneVehiclePerPlate, Holders
<1>2. \A y \in Vehicles \ {v} : y \in Holders(plate)' => y \in Holders(plate)
  BY <1>1 DEF Holders, Shown, Exists
<1>3. v \in Holders(plate)' => Holders(plate) \subseteq {v}
  BY <1>1 DEF Holders, Shown, Exists, IndexAllows
<1> QED BY <1>2, <1>3 DEF RegistryInv, OneVehiclePerPlate

\* A request that writes, or is refused by the index because it was overtaken.
LEMMA SaveKeeps ==
  ASSUME RegistryInv, NEW c \in Clerks, NEW v \in Vehicles, NEW row \in VehicleRows, Save(c, v, row),
         row.status # "NONE", Exists(v) => row.plate = vehicle[v].plate,
         ~errand[c].late => IndexAllows(v, row)
  PROVE  RegistryInv'
<1>1. CASE ~IndexAllows(v, row)
  <2>1. vehicle' = vehicle /\ errand' = [errand EXCEPT ![c] = NoErrand] /\ NeverSurprised'
    <3>1. vehicle' = vehicle /\ EndErrand(c) /\ surprised' = (surprised \/ ~errand[c].late)
      BY <1>1 DEF Save
    <3>2. errand[c].late /\ ~surprised
      BY <1>1 DEF RegistryInv, NeverSurprised
    <3>3. ~surprised'
      BY <3>1, <3>2, Zenon
    <3> QED BY <3>1, <3>3 DEF EndErrand, SetErrand, NeverSurprised
  <2>2. \A d \in Clerks : errand'[d] = IF d = c THEN NoErrand ELSE errand[d]
    BY <2>1 DEF RegistryInv
  <2>3. errand' \in [Clerks -> Errands]
    BY <2>1, ErrandAtRest DEF RegistryInv
  <2>4. \A d \in Clerks : ErrandOK(errand[d])
    BY DEF RegistryInv
  <2>5. \A d \in Clerks : ErrandOK(errand'[d])
    BY <2>2, <2>4, ErrandAtRest
  <2>6. (\A d \in Clerks : ErrandOK(errand[d]))'
    BY <2>1, <2>5 DEF ErrandOK, Exists, Holders, Shown
  <2> QED BY <2>1, <2>3, <2>6 DEF RegistryInv, OneVehiclePerPlate, NeverSurprised, Holders, Shown, Exists
<1>2. CASE IndexAllows(v, row)
  <2>1. vehicle' = [vehicle EXCEPT ![v] = row] /\ errand' = Overtaken(c) /\ surprised' = surprised
    BY <1>2 DEF Save
  <2>2. vehicle'[v] = row /\ \A w \in Vehicles \ {v} : vehicle'[w] = vehicle[w]
    BY <2>1 DEF RegistryInv
  <2>3. ASSUME NEW d \in Clerks
        PROVE  errand'[d] \in Errands /\ ErrandOK(errand[d])'
    <3>1. CASE d = c
      <4>1. errand'[d] = NoErrand
        BY <2>1, <3>1 DEF Overtaken
      <4> QED BY <4>1 DEF NoErrand, Errands, ErrandOK
    <3>2. CASE d # c
      <4> DEFINE e == [errand[d] EXCEPT !.late = @ \/ errand[d].pc # "rest"]
      <4>1. errand'[d] = e
        BY <2>1, <3>2 DEF Overtaken
      <4>2. errand[d] \in Errands /\ ErrandOK(errand[d])
        BY DEF RegistryInv
      <4>3. /\ e \in Errands /\ e.pc = errand[d].pc /\ e.id = errand[d].id /\ e.to = errand[d].to
            /\ e.plate = errand[d].plate /\ (e.pc # "rest" => e.late)
        BY <4>2 DEF Errands
      <4> HIDE DEF e
      <4>4. \A w \in Vehicles : Exists(w) => Exists(w)' /\ vehicle'[w].plate = vehicle[w].plate
        BY <2>2 DEF Exists
      <4> QED BY <4>1, <4>2, <4>3, <4>4 DEF ErrandOK
    <3> QED BY <3>1, <3>2
  <2>4. errand' \in [Clerks -> Errands]
    BY <2>1, <2>3 DEF Overtaken
  <2>5. OneVehiclePerPlate'
    BY <1>2, <2>1, IndexKeepsOne
  <2> QED BY <2>1, <2>3, <2>4, <2>5 DEF RegistryInv, NeverSurprised
<1> QED BY <1>1, <1>2

\* A request that only goes on or ends.
LEMMA ErrandMoves ==
  ASSUME RegistryInv, NEW c \in Clerks, UNCHANGED <<vehicle, surprised>>,
         NEW e \in Errands, ErrandOK(e), SetErrand(c, e)
  PROVE  RegistryInv'
<1>1. \A d \in Clerks : errand'[d] = IF d = c THEN e ELSE errand[d]
  BY DEF RegistryInv, SetErrand
<1>2. errand' \in [Clerks -> Errands]
  BY DEF RegistryInv, SetErrand
<1>3. \A d \in Clerks : ErrandOK(errand'[d])
  BY <1>1 DEF RegistryInv
<1>4. (\A d \in Clerks : ErrandOK(errand[d]))'
  BY <1>3 DEF ErrandOK, Exists, Holders, Shown
<1> QED BY <1>2, <1>4 DEF RegistryInv, OneVehiclePerPlate, NeverSurprised, Holders, Shown, Exists

LEMMA StartMoves ==
  ASSUME RegistryInv, NEW c \in Clerks, UNCHANGED <<vehicle, surprised>>,
         NEW pc \in {"create", "delete", "clash", "status"}, NEW v \in Vehicles \cup {NoPlate},
         NEW plate \in Plates \cup {NoPlate}, NEW to \in LifeStatuses \cup {"NONE"},
         Start(c, pc, v, plate, to),
         pc = "create" => Holders(plate) = {}, pc # "create" => v \in Vehicles /\ Exists(v),
         pc = "clash" => plate = vehicle[v].plate, pc = "status" => to \in LifeStatuses
  PROVE  RegistryInv'
<1> DEFINE e == [NoErrand EXCEPT !.pc = pc, !.plate = plate, !.id = v, !.to = to]
<1>1. e \in Errands /\ e.pc = pc /\ e.plate = plate /\ e.id = v /\ e.to = to
  BY DEF NoErrand, Errands
<1>2. SetErrand(c, e)
  BY DEF Start
<1> HIDE DEF e
<1>3. ErrandOK(e)
  BY <1>1 DEF ErrandOK
<1> QED BY <1>1, <1>2, <1>3, ErrandMoves

LEMMA RegistryStep == RegistryInv /\ [RegistryNext]_registryVars => RegistryInv'
<1> SUFFICES ASSUME RegistryInv, [RegistryNext]_registryVars PROVE RegistryInv'
  OBVIOUS
<1>0. \A c \in Clerks : errand[c] \in Errands /\ ErrandOK(errand[c])
  BY DEF RegistryInv
<1>00. \A v \in Vehicles : vehicle[v] \in VehicleRows
  BY DEF RegistryInv
<1>1. CASE UNCHANGED registryVars
  BY <1>1 DEF registryVars, RegistryInv, OneVehiclePerPlate, NeverSurprised, ErrandOK, Holders, Shown, Exists
<1>2. ASSUME NEW c \in Clerks, NEW plate \in Plates \cup {NoPlate}, RequestCreate(c, plate) PROVE RegistryInv'
  BY <1>2, StartMoves DEF RequestCreate
<1>3. ASSUME NEW c \in Clerks, NEW v \in Vehicles, CreateVehicle(c, v) PROVE RegistryInv'
  <2> DEFINE row == NewVehicle(errand[c].plate)
  <2>1. errand[c] \in Errands /\ ErrandOK(errand[c]) /\ errand[c].pc = "create" /\ ~Exists(v)
    BY <1>0, <1>3 DEF CreateVehicle
  <2>2. row \in VehicleRows /\ row.status # "NONE" /\ row.plate = errand[c].plate
    BY <2>1 DEF NewVehicle, VehicleRows, LifeStatuses, Errands
  <2>3. Save(c, v, row)
    BY <1>3 DEF CreateVehicle
  <2> HIDE DEF row
  <2>4. ~errand[c].late => IndexAllows(v, row)
    BY <2>1, <2>2 DEF ErrandOK, IndexAllows
  <2> QED BY <2>1, <2>2, <2>3, <2>4, SaveKeeps
<1>4. ASSUME NEW c \in Clerks, NEW v \in Vehicles, RequestDelete(c, v) PROVE RegistryInv'
  BY <1>4, StartMoves DEF RequestDelete, Shown
<1>5. ASSUME NEW c \in Clerks, NEW v \in Vehicles, RequestRestore(c, v) PROVE RegistryInv'
  <2>1. vehicle[v].plate \in Plates \cup {NoPlate}
    BY <1>00 DEF VehicleRows
  <2> QED BY <1>5, <2>1, StartMoves DEF RequestRestore
<1>6. ASSUME NEW c \in Clerks, NEW v \in Vehicles, NEW to \in LifeStatuses, RequestStatus(c, v, to)
      PROVE  RegistryInv'
  BY <1>6, StartMoves DEF RequestStatus, Shown
\* The three writes by id: hide, show again, change the status.
<1>7. ASSUME NEW c \in Clerks, DeleteVehicle(c) PROVE RegistryInv'
  <2>1. PICK v \in Vehicles : v = errand[c].id /\ Exists(v) /\ vehicle[v] \in VehicleRows
    BY <1>0, <1>00, <1>7 DEF DeleteVehicle, ErrandOK
  <2> DEFINE row == [vehicle[v] EXCEPT !.hidden = TRUE]
  <2>2. row \in VehicleRows /\ row.status # "NONE" /\ row.plate = vehicle[v].plate /\ row.hidden
    BY <2>1 DEF VehicleRows, Exists
  <2>3. Save(c, v, row)
    BY <1>7, <2>1 DEF DeleteVehicle
  <2> HIDE DEF row
  <2>4. IndexAllows(v, row)
    BY <2>2 DEF IndexAllows
  <2> QED BY <2>1, <2>2, <2>3, <2>4, SaveKeeps
<1>8. ASSUME NEW c \in Clerks, CheckClash(c) PROVE RegistryInv'
  <2>1. CASE EndErrand(c)
    BY <1>8, <2>1, ErrandAtRest, ErrandMoves DEF CheckClash, EndErrand
  <2>2. CASE ~Clash(c) /\ SetErrand(c, [errand[c] EXCEPT !.pc = "restore", !.late = FALSE])
    <3> DEFINE e == [errand[c] EXCEPT !.pc = "restore", !.late = FALSE]
    <3>1. errand[c] \in Errands /\ ErrandOK(errand[c]) /\ errand[c].pc = "clash"
      BY <1>0, <1>8 DEF CheckClash
    <3>2. /\ e \in Errands /\ e.pc = "restore" /\ e.id = errand[c].id /\ e.plate = errand[c].plate
      BY <3>1 DEF Errands
    <3>3. SetErrand(c, e)
      BY <2>2
    <3> HIDE DEF e
    <3>4. ErrandOK(e)
      BY <2>2, <3>1, <3>2 DEF ErrandOK, Clash
    <3> QED BY <1>8, <3>2, <3>3, <3>4, ErrandMoves DEF CheckClash
  <2> QED BY <1>8, <2>1, <2>2 DEF CheckClash
<1>9. ASSUME NEW c \in Clerks, RestoreVehicle(c) PROVE RegistryInv'
  <2>1. PICK v \in Vehicles : v = errand[c].id /\ Exists(v) /\ vehicle[v] \in VehicleRows
    BY <1>0, <1>00, <1>9 DEF RestoreVehicle, ErrandOK
  <2> DEFINE row == [vehicle[v] EXCEPT !.hidden = FALSE]
  <2>2. row \in VehicleRows /\ row.status # "NONE" /\ row.plate = vehicle[v].plate
    BY <2>1 DEF VehicleRows, Exists
  <2>3. Save(c, v, row)
    BY <1>9, <2>1 DEF RestoreVehicle
  <2> HIDE DEF row
  <2>4. ~errand[c].late => IndexAllows(v, row)
    BY <1>0, <1>9, <2>1, <2>2 DEF IndexAllows, RestoreVehicle, ErrandOK
  <2> QED BY <2>1, <2>2, <2>3, <2>4, SaveKeeps
<1>10. ASSUME NEW c \in Clerks, ChangeStatus(c) PROVE RegistryInv'
  <2>1. PICK v \in Vehicles : v = errand[c].id /\ Exists(v) /\ vehicle[v] \in VehicleRows
    BY <1>0, <1>00, <1>10 DEF ChangeStatus, ErrandOK
  <2> DEFINE row == [vehicle[v] EXCEPT !.status = errand[c].to]
  <2>2. errand[c].to \in LifeStatuses
    BY <1>0, <1>10 DEF ChangeStatus, ErrandOK
  <2>3. /\ row \in VehicleRows /\ row.status # "NONE" /\ row.plate = vehicle[v].plate
        /\ row.hidden = vehicle[v].hidden
    BY <2>1, <2>2 DEF VehicleRows, LifeStatuses
  <2>4. Save(c, v, row)
    BY <1>10, <2>1 DEF ChangeStatus
  <2> HIDE DEF row
  <2>5. IndexAllows(v, row)
    <3>1. CASE row.hidden \/ row.plate = NoPlate
      BY <3>1 DEF IndexAllows, Holders
    <3>2. CASE ~row.hidden /\ row.plate # NoPlate
      <4>1. row.plate \in Plates /\ v \in Holders(row.plate)
        BY <2>1, <2>3, <3>2 DEF Holders, Shown, VehicleRows
      <4> QED BY <4>1 DEF IndexAllows, RegistryInv, OneVehiclePerPlate
    <3> QED BY <3>1, <3>2
  <2> QED BY <2>1, <2>3, <2>4, <2>5, SaveKeeps
<1> QED BY <1>1, <1>2, <1>3, <1>4, <1>5, <1>6, <1>7, <1>8, <1>9, <1>10 DEF RegistryNext

\* However requests to create, hide, bring back and retire vehicles overlap, one
\* live vehicle at most holds a plate, and only a request that was overtaken
\* after its check meets the index.
LEMMA PlatesAlwaysSafe == RegistrySpec => []PlatesSafe
<1>1. RegistryInv => PlatesSafe
  BY DEF RegistryInv, PlatesSafe
<1> QED BY <1>1, RegistryInitial, RegistryStep, PTL DEF RegistrySpec

(* What is told of the past. A reading that names the service it came with names   *)
(* a service of the same car; the newest of a list are counted by rank.            *)

HistoryRows == [table : Tables, car : Autos, on : Dates, from : Nat, live : BOOLEAN]

\* The row an entry came with is a service of its car, written before.
CameWith(s, r) ==
  r.from # 0 => /\ r.table = "ODOMETER" /\ r.from \in DOMAIN s
                /\ s[r.from].table = "SERVICE" /\ s[r.from].car = r.car
Written(s) == s \in Seq(HistoryRows) /\ \A n \in DOMAIN s : CameWith(s, s[n])

HistoryInv == Written(rows) /\ hidden \subseteq Autos

LEMMA OneMoreRow ==
  ASSUME NEW s, Written(s), NEW r \in HistoryRows, CameWith(s, r)
  PROVE  /\ Written(Append(s, r)) /\ Len(Append(s, r)) = Len(s) + 1
         /\ DOMAIN Append(s, r) = 1 .. Len(s) + 1 /\ Append(s, r)[Len(s) + 1] = r
<1> DEFINE t == Append(s, r)
<1>1. /\ s \in Seq(HistoryRows) /\ t \in Seq(HistoryRows) /\ Len(s) \in Nat /\ DOMAIN s = 1 .. Len(s)
      /\ Len(t) = Len(s) + 1 /\ DOMAIN t = 1 .. Len(s) + 1 /\ t[Len(s) + 1] = r
      /\ \A n \in 1 .. Len(s) : t[n] = s[n]
  BY DEF Written
<1> HIDE DEF t
<1>2. ASSUME NEW n \in DOMAIN t PROVE CameWith(t, t[n])
  <2>1. CASE n \in 1 .. Len(s)
    BY <1>1, <2>1 DEF Written, CameWith
  <2>2. CASE n = Len(s) + 1
    BY <1>1, <2>2 DEF CameWith
  <2> QED BY <1>1, <2>1, <2>2
<1> QED BY <1>1, <1>2 DEF Written, t

LEMMA OneRowChanged ==
  ASSUME HistoryInv, NEW n \in DOMAIN rows, NEW r \in HistoryRows, rows' = [rows EXCEPT ![n] = r],
         r.table = rows[n].table, r.car = rows[n].car, r.from = rows[n].from
  PROVE  Written(rows')
<1>1. rows \in Seq(HistoryRows) /\ Len(rows) \in Nat /\ DOMAIN rows = 1 .. Len(rows)
  BY DEF HistoryInv, Written
<1>2. rows' \in Seq(HistoryRows) /\ DOMAIN rows' = DOMAIN rows
  BY <1>1
<1>3. \A m \in DOMAIN rows : rows'[m] = IF m = n THEN r ELSE rows[m]
  BY <1>1
<1> QED BY <1>1, <1>2, <1>3 DEF HistoryInv, Written, CameWith

LEMMA EntryFacts ==
  ASSUME NEW table \in Tables, NEW car \in Autos, NEW day \in Dates, NEW from \in Nat
  PROVE  /\ Entry(table, car, day, from) \in HistoryRows
         /\ Entry(table, car, day, from).table = table /\ Entry(table, car, day, from).car = car
         /\ Entry(table, car, day, from).from = from
BY DEF Entry, HistoryRows

LEMMA HistoryStep == HistoryInv /\ [HistoryNext]_historyVars => HistoryInv'
<1> SUFFICES ASSUME HistoryInv, [HistoryNext]_historyVars PROVE HistoryInv'
  OBVIOUS
<1> DEFINE Goal == HistoryInv'
<1>1. /\ "ODOMETER" \in Tables /\ "SERVICE" \in Tables /\ "INSPECTION" \in Tables /\ "FUEL" \in Tables
      /\ rows \in Seq(HistoryRows) /\ Len(rows) \in Nat /\ 0 \in Nat
  BY DEF Tables, HistoryInv, Written
<1>2. ASSUME NEW car \in Autos, NEW day \in Dates, NEW measured \in BOOLEAN, RecordService(car, day, measured)
      PROVE  Goal
  <2> DEFINE visit == Entry("SERVICE", car, day, 0)
             service == Append(rows, visit)
             reading == Entry("ODOMETER", car, day, Len(service))
  <2>0. visit \in HistoryRows /\ visit.from = 0 /\ visit.table = "SERVICE" /\ visit.car = car
    BY <1>1, EntryFacts
  <2> HIDE DEF visit
  <2>1. /\ Written(service) /\ Len(service) = Len(rows) + 1 /\ DOMAIN service = 1 .. Len(rows) + 1
        /\ service[Len(rows) + 1] = visit
    BY <1>1, <2>0, OneMoreRow DEF HistoryInv, CameWith
  <2> HIDE DEF service
  <2>2. /\ reading \in HistoryRows /\ reading.from = Len(rows) + 1 /\ reading.table = "ODOMETER"
        /\ reading.car = car
    BY <1>1, <2>1, EntryFacts
  <2> HIDE DEF reading
  <2>3. CameWith(service, reading)
    BY <1>1, <2>0, <2>1, <2>2 DEF CameWith
  <2>4. Written(Append(service, reading))
    BY <2>1, <2>2, <2>3, OneMoreRow
  <2> QED BY <1>2, <2>1, <2>4 DEF RecordService, HistoryInv, service, reading, visit
<1>3. ASSUME NEW car \in Autos, NEW day \in Dates, RecordFill(car, day) PROVE Goal
  <2> DEFINE fill == Entry("FUEL", car, day, 0)
             reading == Entry("ODOMETER", car, day, 0)
  <2>1. fill \in HistoryRows /\ reading \in HistoryRows /\ fill.from = 0 /\ reading.from = 0
    BY <1>1, EntryFacts
  <2> HIDE DEF fill, reading
  <2>2. Written(Append(rows, fill))
    BY <2>1, OneMoreRow DEF HistoryInv, CameWith
  <2>3. Written(Append(Append(rows, fill), reading))
    BY <2>1, <2>2, OneMoreRow DEF CameWith
  <2>4. rows \o <<fill, reading>> = Append(Append(rows, fill), reading)
    BY <1>1, <2>1
  <2> QED BY <1>3, <2>3, <2>4 DEF RecordFill, HistoryInv, fill, reading
<1>4. ASSUME NEW car \in Autos, NEW day \in Dates, RecordInspection(car, day) \/ EnterReading(car, day) PROVE Goal
  <2>1. PICK table \in {"INSPECTION", "ODOMETER"} :
          rows' = Append(rows, Entry(table, car, day, 0)) /\ hidden' = hidden
    BY <1>4 DEF RecordInspection, EnterReading
  <2> DEFINE r == Entry(table, car, day, 0)
  <2>2. r \in HistoryRows /\ r.from = 0
    BY <1>1, EntryFacts
  <2> HIDE DEF r
  <2> QED BY <2>1, <2>2, OneMoreRow DEF HistoryInv, CameWith, r
<1>5. ASSUME NEW n \in DOMAIN rows, RemoveRow(n) PROVE Goal
  <2> DEFINE r == [rows[n] EXCEPT !.live = FALSE]
  <2>1. rows[n] \in HistoryRows
    BY <1>1
  <2>2. r \in HistoryRows /\ r.table = rows[n].table /\ r.car = rows[n].car /\ r.from = rows[n].from
    BY <2>1 DEF HistoryRows
  <2>3. rows' = [rows EXCEPT ![n] = r] /\ hidden' = hidden
    BY <1>5 DEF RemoveRow
  <2> HIDE DEF r
  <2> QED BY <2>2, <2>3, OneRowChanged DEF HistoryInv
<1>6. ASSUME NEW n \in DOMAIN rows, NEW day \in Dates, MoveService(n, day) PROVE Goal
  <2> DEFINE r == [rows[n] EXCEPT !.on = day]
  <2>1. rows[n] \in HistoryRows
    BY <1>1
  <2>2. r \in HistoryRows /\ r.table = rows[n].table /\ r.car = rows[n].car /\ r.from = rows[n].from
    BY <2>1 DEF HistoryRows
  <2>3. rows' = [rows EXCEPT ![n] = r] /\ hidden' = hidden
    BY <1>6 DEF MoveService
  <2> HIDE DEF r
  <2> QED BY <2>2, <2>3, OneRowChanged DEF HistoryInv
<1>7. ASSUME NEW car \in Autos, HideCar(car) \/ RestoreCar(car) PROVE Goal
  BY <1>7 DEF HideCar, RestoreCar, HistoryInv
<1>8. ASSUME UNCHANGED historyVars PROVE Goal
  BY <1>8 DEF historyVars, HistoryInv
<1> HIDE DEF Goal
<1> QED BY <1>2, <1>3, <1>4, <1>5, <1>6, <1>7, <1>8 DEF HistoryNext, Goal

\* How a list is cut to its Newest first, for any order of its elements.
Above(R, S, n) == {m \in S : <<m, n>> \in R}
Leaders(R, S) == {n \in S : Cardinality(Above(R, S, n)) < Newest}
Ranks(R, S) ==
  /\ IsFiniteSet(S)
  /\ \A x \in S : <<x, x>> \notin R
  /\ \A x, y, z \in S : <<x, y>> \in R /\ <<y, z>> \in R => <<x, z>> \in R
  /\ \A x, y \in S : x # y => <<x, y>> \in R \/ <<y, x>> \in R

LEMMA RanksDiffer ==
  ASSUME NEW R, NEW S, Ranks(R, S), NEW x \in S, NEW y \in S, <<x, y>> \in R
  PROVE  /\ Cardinality(Above(R, S, x)) \in Nat /\ Cardinality(Above(R, S, y)) \in Nat
         /\ Cardinality(Above(R, S, x)) < Cardinality(Above(R, S, y))
<1>1. Above(R, S, x) \cup {x} \subseteq Above(R, S, y) /\ x \notin Above(R, S, x)
  BY DEF Above, Ranks
<1>2. /\ Above(R, S, x) \in SUBSET S /\ Above(R, S, y) \in SUBSET S /\ IsFiniteSet(S)
  BY DEF Above, Ranks
<1>3. IsFiniteSet(Above(R, S, x)) /\ IsFiniteSet(Above(R, S, y))
  BY <1>2, FS_Subset
<1>4. Cardinality(Above(R, S, x) \cup {x}) = Cardinality(Above(R, S, x)) + 1
  BY <1>1, <1>3, FS_AddElement
<1>5. Cardinality(Above(R, S, x) \cup {x}) <= Cardinality(Above(R, S, y))
  BY <1>1, <1>3, FS_Subset
<1>6. Cardinality(Above(R, S, x)) \in Nat /\ Cardinality(Above(R, S, y)) \in Nat
  BY <1>3, FS_CardinalityType
<1> QED BY <1>4, <1>5, <1>6

\* A list longer than that keeps exactly as many, and they come before all others.
LEMMA LeadersLead ==
  ASSUME NEW R, NEW S, Ranks(R, S)
  PROVE  /\ IsFiniteSet(Leaders(R, S))
         /\ Leaders(R, S) = S \/ Cardinality(Leaders(R, S)) = Newest
         /\ Cardinality(S) >= Newest => Cardinality(Leaders(R, S)) = Newest
         /\ \A x \in Leaders(R, S), y \in S \ Leaders(R, S) : <<x, y>> \in R
<1> DEFINE size == Cardinality(S)
           rank == [n \in S |-> Cardinality(Above(R, S, n))]
           top == Leaders(R, S)
<1>1. IsFiniteSet(S) /\ size \in Nat /\ Newest \in Nat \ {0}
  BY FS_CardinalityType, HistoryConstants DEF Ranks
<1>2. \A n \in S : rank[n] \in 0 .. size - 1
  <2> SUFFICES ASSUME NEW n \in S PROVE rank[n] \in 0 .. size - 1
    OBVIOUS
  <2>1. Above(R, S, n) \in SUBSET (S \ {n})
    BY DEF Above, Ranks
  <2>2. IsFiniteSet(S \ {n}) /\ Cardinality(S \ {n}) = size - 1
    BY <1>1, FS_RemoveElement
  <2>3. IsFiniteSet(Above(R, S, n)) /\ Cardinality(Above(R, S, n)) <= size - 1
    BY <2>1, <2>2, FS_Subset
  <2>4. Cardinality(Above(R, S, n)) \in Nat
    BY <2>3, FS_CardinalityType
  <2> QED BY <1>1, <2>3, <2>4
<1>3. \A x, y \in S : rank[x] = rank[y] => x = y
  <2> SUFFICES ASSUME NEW x \in S, NEW y \in S, x # y PROVE rank[x] # rank[y]
    OBVIOUS
  <2>1. <<x, y>> \in R \/ <<y, x>> \in R
    BY DEF Ranks
  <2> QED BY <2>1, RanksDiffer
<1>4. top \subseteq S /\ IsFiniteSet(top) /\ top = {n \in S : rank[n] < Newest}
  <2>1. top \in SUBSET S
    BY DEF Leaders
  <2> QED BY <1>1, <2>1, FS_Subset DEF Leaders
<1>5. IsFiniteSet(0 .. size - 1) /\ Cardinality(0 .. size - 1) = size
  BY <1>1, FS_Interval
<1>6. IsFiniteSet(0 .. Newest - 1) /\ Cardinality(0 .. Newest - 1) = Newest
  BY <1>1, FS_Interval
<1> HIDE DEF size, rank, top
<1>7. rank \in Surjection(S, 0 .. size - 1)
  <2>1. rank \in Injection(S, 0 .. size - 1)
    BY <1>2, <1>3 DEF Injection, IsInjective, rank
  <2> QED BY <1>1, <1>5, <2>1, FS_Injection DEF size
<1>8. ASSUME size >= Newest PROVE Cardinality(top) = Newest
  <2> DEFINE place == [n \in top |-> rank[n]]
  <2>1. place \in [top -> 0 .. Newest - 1]
    BY <1>1, <1>2, <1>4
  <2>2. place \in Injection(top, 0 .. Newest - 1)
    BY <1>3, <1>4, <2>1 DEF Injection, IsInjective
  <2>3. \A k \in 0 .. Newest - 1 : \E n \in top : place[n] = k
    BY <1>1, <1>4, <1>7, <1>8 DEF Surjection
  <2>4. place \in Surjection(top, 0 .. Newest - 1)
    BY <2>1, <2>3 DEF Surjection
  <2> QED BY <1>6, <2>2, <2>4, FS_Injection
<1>9. ASSUME size < Newest PROVE top = S
  BY <1>1, <1>2, <1>4, <1>9
<1>10. \A x \in top, y \in S \ top : <<x, y>> \in R
  <2> SUFFICES ASSUME NEW x \in top, NEW y \in S \ top, <<x, y>> \notin R PROVE FALSE
    OBVIOUS
  <2>1. x \in S /\ y \in S /\ x # y
    BY <1>4
  <2>2. <<y, x>> \in R
    BY <2>1 DEF Ranks
  <2>3. Cardinality(Above(R, S, y)) < Cardinality(Above(R, S, x))
    BY <2>1, <2>2, RanksDiffer
  <2>4. rank[y] < rank[x] /\ rank[x] < Newest /\ ~(rank[y] < Newest)
    BY <1>4, <2>1, <2>3 DEF rank
  <2> QED BY <1>1, <1>2, <2>1, <2>4
<1>11. size >= Newest \/ size < Newest
  BY <1>1
<1> QED BY <1>4, <1>8, <1>9, <1>10, <1>11 DEF top, size

\* The two orders of the dashboard: of one list, and of the three together.
NewerIn(S) == {p \in S \X S : Later(p[1], p[2])}
ShownBefore(S) == {p \in S \X S : Before(p[1], p[2])}
Happened == In("ODOMETER") \cup In("SERVICE") \cup In("INSPECTION")

LEMMA RowFacts ==
  ASSUME HistoryInv
  PROVE  /\ \A n \in Kept : /\ n \in Nat /\ rows[n] \in HistoryRows /\ CameWith(rows, rows[n])
                            /\ rows[n].on \in Nat
         /\ IsFiniteSet(Kept) /\ 0 \notin Kept
<1>1. rows \in Seq(HistoryRows) /\ Len(rows) \in Nat /\ DOMAIN rows = 1 .. Len(rows)
  BY DEF HistoryInv, Written
<1>2. IsFiniteSet(1 .. Len(rows))
  BY <1>1, FS_Interval
<1>3. Kept \in SUBSET (1 .. Len(rows))
  BY <1>1 DEF Kept
<1>4. IsFiniteSet(Kept)
  BY <1>2, <1>3, FS_Subset
<1>5. ASSUME NEW n \in Kept
      PROVE  n \in Nat \ {0} /\ rows[n] \in HistoryRows /\ CameWith(rows, rows[n]) /\ rows[n].on \in Nat
  <2>1. n \in 1 .. Len(rows) /\ rows[n] \in HistoryRows /\ CameWith(rows, rows[n])
    BY <1>1, <1>3 DEF HistoryInv, Written
  <2>2. n \in Nat \ {0}
    BY <1>1, <2>1
  <2>3. rows[n].on \in Dates
    BY <2>1 DEF HistoryRows
  <2> QED BY <2>1, <2>2, <2>3, HistoryConstants
<1> QED BY <1>4, <1>5

LEMMA ListsAreRanked ==
  ASSUME HistoryInv, NEW S, S \subseteq Kept
  PROVE  Ranks(NewerIn(S), S)
<1>1. IsFiniteSet(S)
  BY RowFacts, FS_Subset
<1> QED BY <1>1, RowFacts DEF Ranks, NewerIn, Later

LEMMA ScreenIsRanked ==
  ASSUME HistoryInv, NEW S, S \subseteq Happened
  PROVE  Ranks(ShownBefore(S), S)
<1>1. S \subseteq Kept
  BY DEF Happened, In
<1>2. IsFiniteSet(S)
  BY <1>1, RowFacts, FS_Subset
<1>3. ASSUME NEW n \in S
      PROVE  /\ n \in Nat /\ rows[n].on \in Nat
             /\ rows[n].table \in {"ODOMETER", "SERVICE", "INSPECTION"}
             /\ ListRank[rows[n].table] = CASE rows[n].table = "ODOMETER" -> 1
                                            [] rows[n].table = "SERVICE" -> 2 [] OTHER -> 3
  BY <1>1, RowFacts DEF Happened, In, ListRank, Tables
<1>4. ASSUME NEW m \in S, NEW n \in S
      PROVE  (ListRank[rows[m].table] = ListRank[rows[n].table]) <=> (rows[m].table = rows[n].table)
  BY <1>3
<1>5. \A n \in S : ListRank[rows[n].table] \in Nat
  BY <1>3
<1>6. \A m, n \in S : (<<m, n>> \in ShownBefore(S)) <=> Before(m, n)
  BY DEF ShownBefore
<1>7. \A n \in S : ~Before(n, n)
  BY <1>3, <1>5 DEF Before
<1>8. \A x, y, z \in S : Before(x, y) /\ Before(y, z) => Before(x, z)
  BY <1>3, <1>4, <1>5 DEF Before
<1>9. \A x, y \in S : x # y => Before(x, y) \/ Before(y, x)
  BY <1>3, <1>4, <1>5 DEF Before
<1> QED BY <1>2, <1>6, <1>7, <1>8, <1>9 DEF Ranks

LEMMA TopsLead ==
  ASSUME HistoryInv, NEW S, S \subseteq Kept
  PROVE  TopOf(S) = Leaders(NewerIn(S), S)
<1>1. \A n \in S : Above(NewerIn(S), S, n) = {m \in S : Later(m, n)}
  BY DEF Above, NewerIn
<1> QED BY <1>1 DEF TopOf, Leaders

LEMMA DashboardIsNewest == HistoryInv => ActivityIsNewest
<1> SUFFICES ASSUME HistoryInv PROVE ActivityIsNewest
  OBVIOUS
<1> DEFINE all == TopOf(In("ODOMETER")) \cup TopOf(In("SERVICE")) \cup TopOf(In("INSPECTION"))
           lists == {In("ODOMETER"), In("SERVICE"), In("INSPECTION")}
<1>1. \A S \in lists : /\ S \subseteq Kept /\ S \subseteq Happened
                       /\ TopOf(S) \subseteq S /\ TopOf(S) \subseteq all
                       /\ IsFiniteSet(TopOf(S))
                       /\ TopOf(S) = S \/ Cardinality(TopOf(S)) = Newest
                       /\ \A x \in TopOf(S), y \in S \ TopOf(S) : Later(x, y)
  <2> SUFFICES ASSUME NEW S \in lists
               PROVE  /\ S \subseteq Kept /\ S \subseteq Happened
                      /\ TopOf(S) \subseteq S /\ TopOf(S) \subseteq all
                      /\ IsFiniteSet(TopOf(S))
                      /\ TopOf(S) = S \/ Cardinality(TopOf(S)) = Newest
                      /\ \A x \in TopOf(S), y \in S \ TopOf(S) : Later(x, y)
    OBVIOUS
  <2>1. S \subseteq Kept /\ S \subseteq Happened /\ TopOf(S) \subseteq S /\ TopOf(S) \subseteq all
    BY DEF In, Happened, TopOf
  <2>2. TopOf(S) = Leaders(NewerIn(S), S) /\ Ranks(NewerIn(S), S)
    BY <2>1, TopsLead, ListsAreRanked
  <2>3. /\ IsFiniteSet(TopOf(S))
        /\ TopOf(S) = S \/ Cardinality(TopOf(S)) = Newest
        /\ \A x \in TopOf(S), y \in S \ TopOf(S) : <<x, y>> \in NewerIn(S)
    BY <2>2, LeadersLead
  <2>4. \A x, y : <<x, y>> \in NewerIn(S) => Later(x, y)
    BY DEF NewerIn
  <2> QED BY <2>1, <2>3, <2>4
<1>2. Happened = UNION lists /\ all = UNION {TopOf(S) : S \in lists}
  BY DEF Happened
<1> HIDE DEF all, lists
<1>3. all \subseteq Happened /\ IsFiniteSet(all) /\ \A n \in all : rows[n].on \in Nat
  BY <1>1, <1>2, RowFacts, FS_Subset
<1>4. RecentActivity = Leaders(ShownBefore(all), all)
  <2>1. \A n \in all : Above(ShownBefore(all), all, n) = {m \in all : Before(m, n)}
    BY DEF Above, ShownBefore
  <2> QED BY <2>1 DEF RecentActivity, Leaders, all
<1>5. /\ RecentActivity = all \/ Cardinality(RecentActivity) = Newest
      /\ Cardinality(all) >= Newest => Cardinality(RecentActivity) = Newest
      /\ \A x \in RecentActivity, y \in all \ RecentActivity : <<x, y>> \in ShownBefore(all)
  BY <1>3, <1>4, ScreenIsRanked, LeadersLead
<1>6. Newest \in Nat /\ Cardinality(all) \in Nat
  BY <1>3, FS_CardinalityType, HistoryConstants
<1>7. ASSUME NEW S \in lists, Cardinality(TopOf(S)) = Newest PROVE Newest <= Cardinality(all)
  BY <1>1, <1>3, <1>7, FS_Subset
<1>8. Cardinality(RecentActivity) = Newest \/ RecentActivity = Happened
  <2>1. CASE Cardinality(all) >= Newest
    BY <1>5, <2>1
  <2>2. CASE Cardinality(all) < Newest
    <3>1. \A S \in lists : TopOf(S) = S
      BY <1>1, <1>6, <1>7, <2>2
    <3>2. all = Happened
      BY <1>2, <3>1
    <3> QED BY <1>5, <3>2
  <2> QED BY <1>6, <2>1, <2>2
<1>9. ASSUME NEW n \in RecentActivity, NEW m \in Happened \ RecentActivity
      PROVE  rows[m].on <= rows[n].on
  <2>1. n \in all /\ Cardinality(Above(ShownBefore(all), all, n)) < Newest
    BY <1>4 DEF Leaders
  <2>2. rows[n].on \in Nat /\ rows[m].on \in Nat
    BY <1>3, <2>1, RowFacts DEF Happened, In
  <2>3. CASE m \in all
    <3>1. <<n, m>> \in ShownBefore(all)
      BY <1>5, <2>3
    <3>2. Before(n, m)
      BY <3>1 DEF ShownBefore
    <3> QED BY <2>2, <3>2 DEF Before
  <2>4. ASSUME m \notin all, rows[m].on > rows[n].on PROVE FALSE
    <3>1. PICK S \in lists : m \in S
      BY <1>2
    <3>2. m \in S \ TopOf(S)
      BY <1>1, <2>4, <3>1
    <3>3. Cardinality(TopOf(S)) = Newest /\ TopOf(S) \subseteq all
      BY <1>1, <3>2
    <3>4. ASSUME NEW x \in TopOf(S) PROVE rows[x].on > rows[n].on
      <4>1. Later(x, m) /\ x \in all
        BY <1>1, <3>2, <3>3
      <4>2. rows[x].on \in Nat
        BY <1>3, <4>1
      <4> QED BY <2>2, <2>4, <4>1, <4>2 DEF Later
    <3>5. TopOf(S) \subseteq Above(ShownBefore(all), all, n)
      BY <2>1, <3>3, <3>4 DEF Above, ShownBefore, Before
    <3>6. Above(ShownBefore(all), all, n) \in SUBSET all
      BY DEF Above
    <3>7. IsFiniteSet(Above(ShownBefore(all), all, n))
      BY <1>3, <3>6, FS_Subset
    <3>8. Newest <= Cardinality(Above(ShownBefore(all), all, n))
      BY <3>3, <3>5, <3>7, FS_Subset
    <3>9. Cardinality(Above(ShownBefore(all), all, n)) \in Nat
      BY <3>7, FS_CardinalityType
    <3> QED BY <1>6, <2>1, <3>8, <3>9
  <2> QED BY <2>2, <2>3, <2>4
<1> QED BY <1>8, <1>9 DEF ActivityIsNewest, Happened

LEMMA ToldOnce == HistoryInv => PastIsWhole
<1> SUFFICES ASSUME HistoryInv, NEW car \in Autos \ hidden
             PROVE  /\ \A n \in About(In("SERVICE") \cup In("ODOMETER"), car) : Told(n) = 1
                    /\ \A n \in HistoryDocument(car) \ In("INSPECTION") : Told(n) = 1
                    /\ Timeline(car) \subseteq HistoryDocument(car)
  BY DEF PastIsWhole
<1> DEFINE shown == Timeline(car)
<1>1. shown = About(In("SERVICE"), car) \cup OwnReadings(car)
  BY DEF Timeline
<1>2. shown \subseteq Kept /\ 0 \notin shown
  BY <1>1, RowFacts DEF About, In, OwnReadings
<1>3. /\ Cardinality({}) = 0 /\ \A x : Cardinality({x}) = 1
  BY FS_EmptySet, FS_Singleton
<1> HIDE DEF shown
<1>4. ASSUME NEW n \in About(In("SERVICE") \cup In("ODOMETER"), car) PROVE Told(n) = 1
  <2>1. /\ n \in Kept /\ rows[n].car = car /\ rows[n] \in HistoryRows /\ CameWith(rows, rows[n])
        /\ rows[n].table \in {"SERVICE", "ODOMETER"}
    BY RowFacts DEF About, In
  <2>2. Told(n) = Cardinality(shown \cap {n}) + Cardinality(shown \cap {rows[n].from})
    BY <2>1 DEF Told, shown
  <2>3. ASSUME n \in shown, rows[n].from \notin shown PROVE Told(n) = 1
    <3>1. shown \cap {n} = {n} /\ shown \cap {rows[n].from} = {}
      BY <2>3
    <3>2. Cardinality(shown \cap {n}) = 1 /\ Cardinality(shown \cap {rows[n].from}) = 0
      BY <3>1, <1>3, Zenon
    <3> QED BY <2>2, <3>2
  <2>4. ASSUME n \notin shown, rows[n].from \in shown PROVE Told(n) = 1
    <3>1. shown \cap {n} = {} /\ shown \cap {rows[n].from} = {rows[n].from}
      BY <2>4
    <3>2. Cardinality(shown \cap {n}) = 0 /\ Cardinality(shown \cap {rows[n].from}) = 1
      BY <3>1, <1>3, Zenon
    <3> QED BY <2>2, <3>2
  <2>5. CASE rows[n].table = "SERVICE"
    <3>1. rows[n].from = 0
      BY <2>1, <2>5 DEF CameWith
    <3>2. n \in shown
      BY <1>1, <2>1, <2>5 DEF About, In
    <3> QED BY <1>2, <2>3, <3>1, <3>2
  <2>6. CASE rows[n].table = "ODOMETER" /\ rows[n].from \in About(In("SERVICE"), car)
    <3>1. n \notin shown
      BY <1>1, <2>6 DEF About, In, OwnReadings
    <3>2. rows[n].from \in shown
      BY <1>1, <2>6
    <3> QED BY <2>4, <3>1, <3>2
  <2>7. CASE rows[n].table = "ODOMETER" /\ rows[n].from \notin About(In("SERVICE"), car)
    <3>1. n \in shown
      BY <1>1, <2>1, <2>7 DEF OwnReadings, About, In
    <3>2. rows[n].from \notin shown
      <4>1. CASE rows[n].from = 0
        BY <1>2, <4>1
      <4>2. CASE rows[n].from # 0
        <5>1. rows[rows[n].from].table = "SERVICE"
          BY <2>1, <4>2 DEF CameWith
        <5> QED BY <1>1, <2>7, <5>1 DEF OwnReadings, About, In
      <4> QED BY <4>1, <4>2
    <3> QED BY <2>3, <3>1, <3>2
  <2> QED BY <2>1, <2>5, <2>6, <2>7
<1>5. HistoryDocument(car) \ In("INSPECTION") \subseteq About(In("SERVICE") \cup In("ODOMETER"), car)
  BY DEF HistoryDocument, About
<1>6. shown \subseteq HistoryDocument(car)
  BY <1>1 DEF HistoryDocument, About, OwnReadings
<1> QED BY <1>4, <1>5, <1>6 DEF shown

\* Whatever is corrected, removed, hidden and brought back, in rows and cars without
\* limit: the timeline tells every service and every reading of a car once, the
\* document for a buyer no other, and the dashboard leaves out nothing that is newer
\* than what it shows.
THEOREM PastStaysTold == HistorySpec => []PastIsTold
<1>1. HistoryInit => HistoryInv
  BY DEF HistoryInit, HistoryInv, Written
<1>2. HistoryInv => PastIsTold
  BY DashboardIsNewest, ToldOnce DEF PastIsTold
<1> QED BY <1>1, <1>2, HistoryStep, PTL DEF HistorySpec

-----------------------------------------------------------------------------
(* The desk runs its parts together: for each of them that is a run of its own in *)
(* which it may stand still, and what is proved of a part holds of the sum.       *)

LEMMA DeskMovesFiles == DeskSpec => TyreSpec /\ RegistrySpec
<1>1. DeskInit => TyreInit /\ RegistryInit
  BY DEF DeskInit
<1>2. [DeskNext]_deskVars => [TyreNext]_tyreVars
  BY DEF DeskNext, deskVars
<1>3. [DeskNext]_deskVars => [RegistryNext]_registryVars
  BY DEF DeskNext, deskVars
<1> QED BY <1>1, <1>2, <1>3, PTL DEF DeskSpec, TyreSpec, RegistrySpec

\* One car's records stay one car's, for any number of requests, sets, periods and
\* cars: no two sets are open on it unless two requests crossed, no plate is on two
\* cars of a workspace that are not hidden.
THEOREM VehicleFilesStaySafe == DeskSpec => []VehicleFilesSafe
<1>1. CarWearsOneSet /\ PlatesSafe => VehicleFilesSafe
  BY DEF VehicleFilesSafe
<1> QED BY <1>1, DeskMovesFiles, OneSetWorn, PlatesAlwaysSafe, PTL
==============================================================================
