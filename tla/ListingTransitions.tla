------------------------- MODULE ListingTransitions -------------------------
(***************************************************************************)
(* The statuses of a listing and the moves the engine allows between them  *)
(* (schema.prisma, packages/ai/src/transitions.ts).                        *)
(***************************************************************************)

ListingStatus == {"PENDING_AUTH", "AUTHORIZED", "AI_PROCESSING", "DRAFT_READY",
                  "USER_VALIDATED", "QUEUED", "PUBLISHED", "AI_FAILED",
                  "USER_CANCELLED", "PUBLISH_FAILED", "EXPIRED"}

Targets ==
    [PENDING_AUTH   |-> {"AUTHORIZED", "USER_CANCELLED"},
     AUTHORIZED     |-> {"AI_PROCESSING", "USER_CANCELLED"},
     AI_PROCESSING  |-> {"DRAFT_READY", "AI_FAILED", "USER_CANCELLED"},
     DRAFT_READY    |-> {"USER_VALIDATED", "USER_CANCELLED"},
     USER_VALIDATED |-> {"QUEUED"},
     QUEUED         |-> {"PUBLISHED", "PUBLISH_FAILED", "USER_CANCELLED"},
     PUBLISHED      |-> {"EXPIRED"}]

CanTransition(from, to) == from \in DOMAIN Targets /\ to \in Targets[from]
=============================================================================
