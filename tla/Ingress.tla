-------------------------------- MODULE Ingress --------------------------------
(***************************************************************************)
(* Layer 0, app/ingress.py: whether a webhook call is a request to answer. *)
(*                                                                         *)
(* A delivery is the webhook's headers and the event it carries.  An empty *)
(* value is None.  A candidate of the signature header is the secret and   *)
(* the timestamp it was computed from; a timestamp that is no number is    *)
(* Junk, and so is a secret that is not base64.  The sender is the mailbox *)
(* the standard library reads from the header, in lower case: Junk when it *)
(* reads none.                                                             *)
(***************************************************************************)
EXTENDS Screens

CONSTANTS Secret,           \* the configured webhook secret, None if unset
          Tolerance,        \* 300 seconds in the code
          InboxId,          \* the configured inbox
          OwnAddress,       \* the gatekeeper's own mailbox
          AllowedSenders    \* mailboxes

Signature(secret, timestamp) == [secret |-> secret, timestamp |-> timestamp]

Abs(n) == IF n < 0 THEN -n ELSE n

VerifySignature(d, now) ==
    IF Secret = None THEN "no_webhook_secret_configured"
    ELSE IF None \in {d.id, d.timestamp} \/ d.signatures = {} THEN "missing_signature_headers"
    ELSE IF d.timestamp = Junk THEN "invalid_timestamp"
    ELSE IF Abs(now - d.timestamp) > Tolerance THEN "stale_timestamp"
    ELSE IF Secret = Junk THEN "invalid_webhook_secret"
    ELSE IF Signature(Secret, d.timestamp) \in d.signatures THEN "ok"
    ELSE "signature_mismatch"

\* The gatekeeper's own address is refused first, whatever the allowlist says.
CheckEvent(d) ==
    IF d.event_type # "message.received" THEN "ignored_event_type"
    ELSE IF d.inbox_id # InboxId THEN "wrong_inbox"
    ELSE IF d.sender = Junk THEN "unparseable_sender"
    ELSE IF d.sender = OwnAddress THEN "loop_own_inbox"
    ELSE IF d.sender \notin AllowedSenders THEN "sender_not_allowlisted"
    ELSE "ok"

\* A webhook that lacks one of these is no message event at all.
ExtractMessageFields(d) ==
    IF None \in {d.event_type, d.message_id, d.inbox_id, d.sender} THEN "unrecognized_payload_shape"
    ELSE "ok"

Layer0(d, now) ==
    LET verdicts == <<VerifySignature(d, now), ExtractMessageFields(d), CheckEvent(d)>>
    IN IF \E i \in 1..3 : verdicts[i] # "ok"
       THEN verdicts[CHOOSE i \in 1..3 : verdicts[i] # "ok" /\ \A j \in 1..(i - 1) : verdicts[j] = "ok"]
       ELSE "ok"
=============================================================================
