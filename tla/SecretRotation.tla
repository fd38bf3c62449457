--------------------------- MODULE SecretRotation ---------------------------
(***************************************************************************)
(* The signing secret of one webhook subscription: created or inherited in *)
(* plain text, migrated, rotated with a grace period, used by the          *)
(* dispatcher for deliveries and by the API for test pings, and the        *)
(* receiver, which switches to a new secret when its operator gets round   *)
(* to it and verifies with core::crypto::verify_webhook.                   *)
(*                                                                         *)
(* A secret is its number; 0 is NULL.  A message is signed with a set of   *)
(* secrets.  The receiver's clock is off by skew.                          *)
(***************************************************************************)
EXTENDS Integers, FiniteSets

CONSTANTS
    Graces,       \* grace_seconds callers ask for
    MAX_GRACE_SECONDS,
    tolerance,    \* what the receiver allows between the timestamp and now
    Skews,        \* how far the receiver's clock may be off
    MaxSecrets, MaxNow

RotationAssumption ==
    /\ MAX_GRACE_SECONDS \in Nat /\ tolerance \in Nat /\ Skews \subseteq Int
    /\ MaxSecrets \in Nat \ {0} /\ MaxNow \in Nat

VARIABLES
    sub,          \* the row: plain, current and previous secret, and its expiry
    issued,       \* secrets generated so far
    told,         \* the secret the subscriber was shown last
    known,        \* the secret the receiver verifies with
    promise,      \* secret -> until when answers said it would be signed with
    withdrawn,    \* secrets dropped from the row within what was said of them
    message,      \* the message under way
    skew, now

vars == <<sub, issued, told, known, promise, withdrawn, message, skew, now>>

Forever == MaxNow + MAX_GRACE_SECONDS + 1
Nothing == [pc |-> "none"]

(* create_webhook stores the secret encrypted; a subscription from before  *)
(* has it in plain text.                                                   *)
Init ==
    /\ sub \in {[plain |-> 0, current |-> 1, previous |-> 0, expires |-> 0],
                [plain |-> 1, current |-> 0, previous |-> 0, expires |-> 0]}
    /\ issued = 1 /\ told = 1 /\ known = 1
    /\ promise = [s \in 1 .. MaxSecrets |-> IF s = 1 THEN Forever ELSE 0]
    /\ withdrawn = {} /\ message = Nothing
    /\ skew \in Skews /\ now = 0

Secrets == 1 .. MaxSecrets

(* backfill_encrypted_secrets, when the webhook service starts.            *)
Migrate ==
    /\ sub.current = 0
    /\ sub' = [sub EXCEPT !.current = sub.plain, !.plain = 0]
    /\ UNCHANGED <<issued, told, known, promise, withdrawn, message, skew, now>>

validate_grace_seconds(grace) == grace \in 0 .. MAX_GRACE_SECONDS

(* One UPDATE: the current secret becomes the previous one.                *)
KeepsFirst(new, grace) ==
    [sub EXCEPT !.previous = IF @ = 0 THEN sub.current ELSE @, !.expires = now + grace, !.current = new]
Rotated(new, grace) ==
    [sub EXCEPT !.previous = sub.current, !.expires = now + grace, !.current = new]

(* The secret in use, encrypted or still in plain text.                    *)
Signing == IF sub.current = 0 THEN sub.plain ELSE sub.current

(* The answer announces until when the secret used so far is signed with.  *)
(* Nothing takes back what an earlier answer announced; but the row has    *)
(* room for one previous secret, so the one before is withdrawn, and so is *)
(* one still in plain text, which has no encrypted copy to keep.  The      *)
(* answer may be lost.                                                     *)
RotateSecret(grace, lost) ==
    /\ issued < MaxSecrets /\ validate_grace_seconds(grace)
    /\ issued' = issued + 1
    /\ sub' = Rotated(issued + 1, grace)
    /\ promise' = [promise EXCEPT ![issued + 1] = Forever, ![Signing] = now + grace]
    /\ withdrawn' = withdrawn \cup ({sub.previous, IF sub.current = 0 THEN sub.plain ELSE 0} \ {0})
    /\ told' = IF lost THEN told ELSE issued + 1
    /\ UNCHANGED <<known, message, skew, now>>

(* The operator of the receiver installs the secret it was shown.          *)
Adopt ==
    /\ known # told /\ known' = told
    /\ UNCHANGED <<sub, issued, told, promise, withdrawn, message, skew, now>>

-----------------------------------------------------------------------------
\* A delivery, and a ping.

PreviousAlways == IF sub.previous # 0 THEN {sub.previous} ELSE {}
PreviousSecret == IF sub.previous # 0 /\ sub.expires > now THEN {sub.previous} ELSE {}

(* Ghost: the secrets said to be signed with at this moment, and those of  *)
(* them no later rotation has withdrawn.                                   *)
Said == {s \in Secrets : promise[s] > now}
Kept == Said \ withdrawn

Claimed(signers, said, kept) == [pc |-> "claimed", signers |-> signers, said |-> said, kept |-> kept]

(* fetch_due reads both secrets.  One that cannot be decrypted fails the   *)
(* delivery (WebhookDelivery).                                             *)
Claim ==
    /\ message = Nothing /\ sub.current # 0
    /\ message' = Claimed({sub.current} \cup PreviousSecret, Said, Kept)
    /\ UNCHANGED <<sub, issued, told, known, promise, withdrawn, skew, now>>

(* test_webhook signs with the current secret alone.                       *)
Ping ==
    /\ message = Nothing /\ sub.current # 0
    /\ LET lasting == {s \in Secrets : promise[s] = Forever} IN
       message' = Claimed({sub.current}, lasting, lasting)
    /\ UNCHANGED <<sub, issued, told, known, promise, withdrawn, skew, now>>

(* send: the timestamp is taken when the message leaves.                   *)
Send ==
    /\ message.pc = "claimed"
    /\ message' = [pc |-> "sent", signers |-> message.signers, said |-> message.said,
                   kept |-> message.kept, t |-> now]
    /\ UNCHANGED <<sub, issued, told, known, promise, withdrawn, skew, now>>

Abs(n) == IF n < 0 THEN -n ELSE n

(* verify_webhook: any signature may match, and the timestamp must be near *)
(* the receiver's now on either side.                                      *)
OnlyLate(m) == now + skew - m.t <= tolerance /\ known = (CHOOSE s \in m.signers : TRUE)
verify_webhook(m) == Abs(now + skew - m.t) <= tolerance /\ known \in m.signers

Receive ==
    /\ message.pc = "sent"
    /\ message' = [pc |-> "received", said |-> message.said, kept |-> message.kept, with |-> known,
                   late |-> now - message.t, ok |-> verify_webhook(message)]
    /\ UNCHANGED <<sub, issued, told, known, promise, withdrawn, skew, now>>

Handled ==
    /\ message.pc = "received" /\ message' = Nothing
    /\ UNCHANGED <<sub, issued, told, known, promise, withdrawn, skew, now>>

Tick ==
    /\ now < MaxNow /\ now' = now + 1
    /\ UNCHANGED <<sub, issued, told, known, promise, withdrawn, message, skew>>

Next ==
    \/ Migrate
    \/ \E g \in Graces : \E lost \in BOOLEAN : RotateSecret(g, lost)
    \/ Adopt \/ Claim \/ Ping \/ Send \/ Receive \/ Handled \/ Tick

Spec == Init /\ [][Next]_vars

-----------------------------------------------------------------------------
(* webhooks.rs:936 and crypto.rs:74: a delivery that arrives within the    *)
(* tolerance is accepted by a receiver that has not switched yet, as by    *)
(* one that has, if the secret it uses was current or within the grace     *)
(* announced for it when the delivery was claimed, whatever happened       *)
(* since, unless a later rotation had already withdrawn it: the UPDATE at  *)
(* webhooks.rs:962 overwrites the one previous secret the row has room     *)
(* for.  No secret that was never announced, or no longer is, and no       *)
(* message older than the tolerance and the skew, is accepted.             *)
SignaturesHonest ==
    message.pc = "received" =>
        /\ message.with \in message.kept /\ message.late + Abs(skew) <= tolerance => message.ok
        /\ message.ok => message.with \in message.said /\ message.late <= tolerance + Abs(skew)
=============================================================================
