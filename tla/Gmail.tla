--------------------------------- MODULE Gmail ---------------------------------
(***************************************************************************)
(* app/gmail_executor.py: search and draft, against a mailbox from which   *)
(* the owner deletes and in which mail arrives meanwhile.                  *)
(*                                                                         *)
(* A message is a record of its thread, its age in days, whether it is a   *)
(* draft, its texts (sender, subject, snippet), and its Message-ID (None   *)
(* when that is not well formed).  The mailbox is the sequence of the      *)
(* messages in order of arrival, None where one was deleted.               *)
(***************************************************************************)
EXTENDS Executor

CONSTANTS Arriving          \* messages that may arrive during a request

VARIABLES mailbox,          \* the sequence of messages
          drafts            \* the drafts the service has made

gmailVars == <<executorVars, mailbox, drafts>>

Present == {i \in DOMAIN mailbox : mailbox[i] # None}

-----------------------------------------------------------------------------
(* gmail.search: the ids of a page, then the metadata of all, or an error. *)

Found(p) ==
    {i \in Present : /\ ~mailbox[i].draft
                     /\ Field(p, "newer_than_days") # None => mailbox[i].age <= p.newer_than_days
                     /\ mailbox[i].subject.what = p.query.what}

\* Newest first.
NewestFirst(ids) ==
    [k \in 1..Cardinality(ids) |->
        CHOOSE i \in ids : Cardinality({j \in ids : j > i}) = k - 1]

SearchIds ==
    /\ Calling("gmail.search", "start")
    /\ call' = [call EXCEPT !.at = "metadata",
                            !.seen = LET ids == NewestFirst(Found(call.p))
                                         max == FieldOr(call.p, "max_results", 5)
                                     IN SubSeq(ids, 1, IF Len(ids) < max THEN Len(ids) ELSE max)]
    /\ UNCHANGED <<ownerSteps, setup, mailbox, drafts>>

ResultsOf(ids) ==
    [count |-> Len(ids),
     items |-> [i \in DOMAIN ids |->
                   LET m == mailbox[ids[i]]
                   IN [fields |-> <<m.sender, m.subject, m.snippet>>, of |-> ids[i]]]]

\* Mutant: a message whose metadata could not be read is left out.
FetchMetadataThatIsThere ==
    /\ Calling("gmail.search", "metadata")
    /\ Complete(ResultsOf(SelectSeq(call.seen, LAMBDA i : i \in Present)))
    /\ UNCHANGED <<ownerSteps, setup, mailbox, drafts>>

FetchMetadata ==
    /\ Calling("gmail.search", "metadata")
    /\ IF \E i \in DOMAIN call.seen : call.seen[i] \notin Present
       THEN Fail(HttpError(404))
       ELSE Complete(ResultsOf(call.seen))
    /\ UNCHANGED <<ownerSteps, setup, mailbox, drafts>>

-----------------------------------------------------------------------------
(* gmail.create_draft: never sent.  A reply names the last message of its  *)
(* thread that is not a draft, if that has a Message-ID.                   *)

ThreadOf(p) == IF Field(p, "thread_id") = None THEN None ELSE p.thread_id.what

InThread(thread) == {i \in Present : mailbox[i].thread = thread}

ReplyHeaders ==
    /\ Calling("gmail.create_draft", "start")
    /\ LET thread == ThreadOf(call.p)
           sent == {i \in InThread(thread) : ~mailbox[i].draft}
       IN IF thread # None /\ InThread(thread) = {} THEN Fail(HttpError(404))
          ELSE call' = [call EXCEPT !.at = "write",
                                    !.seen = IF thread = None \/ sent = {} THEN None
                                             ELSE mailbox[CHOOSE i \in sent : \A j \in sent : j <= i].message_id,
                                    !.since = ownerSteps]
    /\ UNCHANGED <<ownerSteps, setup, mailbox, drafts>>

CreateDraft ==
    /\ Calling("gmail.create_draft", "write")
    /\ drafts' = Append(drafts, [to |-> call.p.to, subject |-> call.p.subject, body |-> call.p.body,
                                 thread |-> ThreadOf(call.p), in_reply_to |-> call.seen])
    /\ Complete(OneItem(<<call.p.to, call.p.subject>>))
    /\ UNCHANGED <<ownerSteps, setup, mailbox>>

-----------------------------------------------------------------------------

MailboxChanges ==
    /\ OwnerActs
    /\ \/ \E i \in Present : mailbox' = [mailbox EXCEPT ![i] = None]
       \/ \E m \in Arriving : mailbox' = Append(mailbox, m)
    /\ UNCHANGED drafts

GmailStep ==
    \/ SearchIds
    \/ FetchMetadata
    \/ ReplyHeaders
    \/ CreateDraft
=============================================================================
