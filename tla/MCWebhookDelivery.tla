--------------------------- MODULE MCWebhookDelivery ---------------------------
(* Model checking webhook delivery, within the bounds of the run.          *)
EXTENDS WebhookDeliveryProps, TLC

CONSTANTS
    MaxCalls,       \* bound: callers, of either kind, that come
    MaxMishaps      \* bound: rejected statements and crashes together

MCVars == <<webhookVars, overlapped>>
MCInit == WebhookInit /\ overlapped = FALSE
MCSpec ==
    /\ MCInit
    /\ [][/\ WebhookNext /\ Overlaps
          /\ Cardinality({c \in Caller : pc'[c] # "new"}) <= MaxCalls
          /\ errors' + crashes' <= MaxMishaps
         ]_MCVars
FairMCSpec == MCSpec /\ WebhookFairness
=============================================================================
