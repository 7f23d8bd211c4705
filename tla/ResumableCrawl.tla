--------------------------- MODULE ResumableCrawl ---------------------------
(***************************************************************************)
(* What a resumable crawl of a paginated listing promises, without tasks,  *)
(* stores or failures: pages are processed in order, a checkpoint lies at  *)
(* or below the last page processed, and a page is never skipped.  A       *)
(* checkpoint may move back (a slower task, a reset), never past hw.       *)
(***************************************************************************)
EXTENDS Naturals

CONSTANT NPages

VARIABLES hw,    \* pages 1..hw have been processed
          ckpt   \* the page after which a restarted crawl resumes

Init == hw = 0 /\ ckpt = 0

ProcessPage == /\ hw < NPages
               /\ hw' = hw + 1
               /\ UNCHANGED ckpt

SaveCheckpoint == /\ ckpt' \in 0..hw
                  /\ UNCHANGED hw

Next == ProcessPage \/ SaveCheckpoint

Spec == Init /\ [][Next]_<<hw, ckpt>>

=============================================================================
