------------------------------ MODULE Documents ------------------------------
(* Uploaded documents: a session reserves a row and a presigned link, the        *)
(* client puts the bytes in object storage, and finalisation decides whether     *)
(* the object is what was declared. Removals and repeated finalisations overlap, *)
(* and the link takes a put with any bytes, at any time, until it expires.       *)
EXTENDS Naturals

CONSTANTS
  Docs,          \* documents rows that may ever exist
  Finalisers,    \* requests the API serves at the same time about documents
  NoDoc

ASSUME DocumentConstants == NoDoc \notin Docs

VARIABLES
  doc,       \* the row: status, deletedAt, and whether a checksum was declared
  object,    \* the object stored under the row's key
  link,      \* whether the presigned link still works
  call,      \* what each request is doing, with the row it read
  rewritten  \* history: documents put again with other bytes once a check had begun

docVars == <<doc, object, link, call, rewritten>>

\* Bytes compared with the declaration: the size, the type and the checksum right or not.
Bytes == [size : BOOLEAN, type : BOOLEAN, sum : BOOLEAN]
NoBytes == [size |-> FALSE, type |-> FALSE, sum |-> FALSE]
NoDocRow == [status |-> "NONE", gone |-> FALSE, summed |-> FALSE]
NoCall == [pc |-> "rest", op |-> "none", id |-> NoDoc, row |-> NoDocRow]

DocInit ==
  /\ doc = [d \in Docs |-> NoDocRow]
  /\ object = [d \in Docs |-> [there |-> FALSE, bytes |-> NoBytes]]
  /\ link = [d \in Docs |-> FALSE]
  /\ call = [f \in Finalisers |-> NoCall]
  /\ rewritten = {}

SetCall(f, c) == call' = [call EXCEPT ![f] = c]
Proceed(f, pc) == SetCall(f, [call[f] EXCEPT !.pc = pc])
Return(f) == SetCall(f, NoCall)
SetStatus(d, status) == doc' = [doc EXCEPT ![d] = [@ EXCEPT !.status = status]]

OpenSession(d, summed) ==
  /\ doc[d] = NoDocRow
  /\ doc' = [doc EXCEPT ![d] = [NoDocRow EXCEPT !.status = "PENDING", !.summed = summed]]
  /\ link' = [link EXCEPT ![d] = TRUE]
  /\ UNCHANGED <<object, call, rewritten>>

\* A finalisation has seen the object there and has not given its verdict yet.
Examined(d) ==
  \E f \in Finalisers : call[f].id = d /\ call[f].pc \in {"magic", "sum", "quarantine", "publish"}

\* The first put, one repeated because it timed out, or a different file: the link
\* signs the key and the type, not the bytes, and no status of the row revokes it.
PutBytes(d, bytes) ==
  /\ link[d]
  /\ object' = [object EXCEPT ![d] = [there |-> TRUE, bytes |-> bytes]]
  /\ rewritten' = IF /\ Examined(d) \/ doc[d].status # "PENDING"
                     /\ object[d].there /\ object[d].bytes # bytes
                    THEN rewritten \cup {d} ELSE rewritten
  /\ UNCHANGED <<doc, link, call>>

LinkExpires(d) ==
  /\ link[d]
  /\ link' = [link EXCEPT ![d] = FALSE]
  /\ UNCHANGED <<doc, object, call, rewritten>>

-----------------------------------------------------------------------------
(* finalise, one read or write at a time.                                      *)

Visible(d) == doc[d].status # "NONE" /\ ~doc[d].gone

Finalise(f, d) ==
  /\ call[f].pc = "rest" /\ Visible(d) /\ doc[d].status = "PENDING"
  /\ SetCall(f, [pc |-> "head", op |-> "finalise", id |-> d, row |-> doc[d]])
  /\ UNCHANGED <<doc, object, link, rewritten>>

Absent(f) == Return(f)    \* the client is told, and the row stays PENDING

CheckHead(f) ==
  /\ call[f].pc = "head"
  /\ LET o == object[call[f].id] IN
       \/ ~o.there /\ Absent(f)
       \/ o.there /\ ~o.bytes.size /\ Proceed(f, "quarantine")
       \/ o.there /\ o.bytes.size /\ Proceed(f, "magic")
  /\ UNCHANGED <<doc, object, link, rewritten>>

UnsummedAfterMagic(row) == "publish"
AfterMagic(row) == IF row.summed THEN "sum" ELSE "publish"

CheckMagic(f) ==
  /\ call[f].pc = "magic"
  /\ Proceed(f, IF ~object[call[f].id].bytes.type THEN "quarantine"
                ELSE AfterMagic(call[f].row))
  /\ UNCHANGED <<doc, object, link, rewritten>>

CheckSum(f) ==
  /\ call[f].pc = "sum"
  /\ Proceed(f, IF object[call[f].id].bytes.sum THEN "publish" ELSE "quarantine")
  /\ UNCHANGED <<doc, object, link, rewritten>>

Quarantine(f) ==
  /\ call[f].pc = "quarantine"
  /\ SetStatus(call[f].id, "QUARANTINED")
  /\ Return(f)
  /\ UNCHANGED <<object, link, rewritten>>

\* By its id, whatever happened to the row since it was read.
Publish(f) ==
  /\ call[f].pc = "publish"
  /\ SetStatus(call[f].id, "AVAILABLE")
  /\ Return(f)
  /\ UNCHANGED <<object, link, rewritten>>

-----------------------------------------------------------------------------
RemoveRead(f, d) ==
  /\ call[f].pc = "rest" /\ Visible(d)
  /\ SetCall(f, [pc |-> "remove", op |-> "remove", id |-> d, row |-> doc[d]])
  /\ UNCHANGED <<doc, object, link, rewritten>>

RemovedByStatus(d) == [doc[d] EXCEPT !.status = "DELETED"]
Removed(d) == [doc[d] EXCEPT !.status = "DELETED", !.gone = TRUE]

\* The object stays.
RemoveDocument(f) ==
  /\ call[f].pc = "remove"
  /\ doc' = [doc EXCEPT ![call[f].id] = Removed(call[f].id)]
  /\ Return(f)
  /\ UNCHANGED <<object, link, rewritten>>

DocNext ==
  \/ \E d \in Docs : \/ LinkExpires(d)
                     \/ \E bytes \in Bytes : PutBytes(d, bytes)
                     \/ \E summed \in BOOLEAN : OpenSession(d, summed)
  \/ \E f \in Finalisers :
       \/ CheckHead(f) \/ CheckMagic(f) \/ CheckSum(f) \/ Quarantine(f) \/ Publish(f)
       \/ RemoveDocument(f)
       \/ \E d \in Docs : Finalise(f, d) \/ RemoveRead(f, d)

DocSpec == DocInit /\ [][DocNext]_docVars

-----------------------------------------------------------------------------
(* Properties.                                                                 *)

\* What list and downloadUrl hand out.
Offered(d) == Visible(d) /\ doc[d].status = "AVAILABLE"

\* The object is there and is what its row declares, as far as finalise can tell.
AsDeclared(d) ==
  LET o == object[d] IN o.there /\ o.bytes.size /\ o.bytes.type /\ (doc[d].summed => o.bytes.sum)

\* Whatever puts, finalisations and removals overlap, a document that is offered is
\* what was declared, unless its link was used for other bytes after a finalisation
\* had found the object: the checks read the object one after another, and nothing
\* reads it again once it is AVAILABLE.
OfferedIsChecked == \A d \in Docs \ rewritten : Offered(d) => AsDeclared(d)

\* Finalisations of one upload agree, however far the upload was when each began: a
\* document once published or quarantined is never the other, with the same exception.
VerdictStands ==
  [][\A d \in Docs \ rewritten : doc[d].status \in {"AVAILABLE", "QUARANTINED"}
       => doc'[d].status \in {doc[d].status, "DELETED"}]_docVars

\* A removal is final, although the row's status may say AVAILABLE afterwards, and
\* whatever is put after it.
RemovedStaysRemoved ==
  [][\A d \in Docs : doc[d].status = "DELETED" \/ doc[d].gone => ~Offered(d)']_docVars

\* A verdict and a removal both outlive whatever was under way when they were made.
DocumentsSettle == VerdictStands /\ RemovedStaysRemoved

\* What the comment on finalise (documents.service.ts:110-115) promises without the
\* exception. The code does not keep it.
OfferedIsDeclared == \A d \in Docs : Offered(d) => AsDeclared(d)
=============================================================================
