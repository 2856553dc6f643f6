-------------------------------- MODULE Finality --------------------------------
(* What the records of several components have in common: the comments and   *)
(* the packages of an issue, the index and the memory are written by commands *)
(* that may fail or die, and hold words of the user that are final.          *)
EXTENDS GithubComments, IssuePackages, HomeFiles, MemoryRecall

\* Action.  What was decided or filed is not undone by what fails, dies or is called again:
\* a rejected comment stays rejected, an export is decided once, an import reopens no task,
\* the index loses no item, and a recall brings back nothing that was forgotten.
RecordsAreFinal == RejectionSticks /\ SendsAreFinal /\ ImportsDoNotReopen /\ ItemsAreKept /\ ForgottenIsLeftAlone
=============================================================================
