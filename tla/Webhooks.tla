------------------------------ MODULE Webhooks ------------------------------
(***************************************************************************)
(* The signing secret of a project and the deliveries signed with it:      *)
(* webhook_secret.get_or_create / rotate, each statement a step of a       *)
(* thread, and callback_notifier.deliver_signed_webhook with its retries.  *)
(***************************************************************************)
EXTENDS Integers

CONSTANTS
    Deliveries,     \* webhooks to deliver, and customers who look the secret up
    Retries,        \* len(WEBHOOK_RETRY_BACKOFF_SECONDS)
    MaxRotations

VARIABLES
    secret,     \* ch_projects.webhook_secret; a secret is named after who generated it
    delivery,   \* each caller: where it is, the secret it uses, its posts
    posted,     \* history: <<caller, secret, value of the row when posted>>
    valid,      \* history: secrets the row had since the caller began
    rotations

webhookVars == <<secret, delivery, posted, valid, rotations>>

NoSecret == <<>>
Waits == [at |-> "idle", uses |-> NoSecret, tries |-> 0]
Settles(d, at) == delivery' = [delivery EXCEPT ![d].at = at]
\* the row takes a value: every caller under way saw it valid
Becomes(s) ==
    /\ secret' = s
    /\ valid' = [d \in Deliveries |-> IF delivery[d].at = "idle" THEN valid[d]
                                      ELSE valid[d] \cup {s}]
SecretKept == UNCHANGED <<secret, rotations>>

-----------------------------------------------------------------------------
(* get_or_create_webhook_secret *)

\* the first read: a secret that is there is used
ReadSecret(d) ==
    /\ delivery[d].at = "idle"
    /\ valid' = [valid EXCEPT ![d] = {secret} \ {NoSecret}]
    /\ delivery' = [delivery EXCEPT ![d] = [at |-> IF secret = NoSecret THEN "create" ELSE "post",
                                           uses |-> secret, tries |-> 0]]
    /\ SecretKept /\ UNCHANGED posted

\* UPDATE ... WHERE webhook_secret IS NULL, and its commit
CreateSecret(d) ==
    /\ delivery[d].at = "create"
    /\ IF secret = NoSecret THEN Becomes(<<"first", d>>) ELSE UNCHANGED <<secret, valid>>
    /\ Settles(d, "reread")
    /\ UNCHANGED <<posted, rotations>>

MutReread(d) ==         \* the candidate is returned as it is
    /\ delivery[d].at = "reread"
    /\ delivery' = [delivery EXCEPT ![d].at = "post", ![d].uses = <<"first", d>>]
    /\ SecretKept /\ UNCHANGED <<posted, valid>>
Reread(d) ==
    /\ delivery[d].at = "reread"
    /\ delivery' = [delivery EXCEPT ![d].at = "post", ![d].uses = secret]
    /\ SecretKept /\ UNCHANGED <<posted, valid>>

\* rotate_webhook_secret replaces whatever there is
Rotate ==
    /\ rotations < MaxRotations /\ rotations' = rotations + 1
    /\ Becomes(<<"rotated", rotations>>)
    /\ UNCHANGED <<delivery, posted>>

-----------------------------------------------------------------------------
(* deliver_signed_webhook: signed anew on each attempt, always with the secret it began with *)

Post(d, accepted) ==
    /\ delivery[d].at = "post"
    /\ posted' = posted \cup {<<d, delivery[d].uses, secret>>}
    /\ delivery' = [delivery EXCEPT ![d].tries = @ + 1,
                      ![d].at = IF accepted \/ delivery[d].tries = Retries THEN "done" ELSE @]
    /\ SecretKept /\ UNCHANGED valid

-----------------------------------------------------------------------------
WebhookInit ==
    /\ secret = NoSecret /\ rotations = 0 /\ posted = {}
    /\ delivery = [d \in Deliveries |-> Waits]
    /\ valid = [d \in Deliveries |-> {}]

WebhookNext ==
    \/ \E d \in Deliveries :
          ReadSecret(d) \/ CreateSecret(d) \/ Reread(d) \/ (\E accepted \in BOOLEAN : Post(d, accepted))
    \/ Rotate

-----------------------------------------------------------------------------
(* Properties *)

\* However first deliveries and rotations interleave, a post is signed with a secret that was
\* the project's own while the delivery ran, and without a rotation every post and every
\* customer has the same one (webhook_secret: "concurrent first-deliveries converge").
SignedAlike ==
    /\ \A p \in posted : p[2] \in valid[p[1]]
    /\ rotations = 0 => \A p, q \in posted : p[2] = q[2] /\ p[2] = p[3]
=============================================================================
