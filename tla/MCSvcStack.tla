----------------------------- MODULE MCSvcStack -----------------------------
\* Model-checking instances of SvcStack.
EXTENDS SvcStack, MCScheduler

MCSvcView == <<MCView, svc>>
=============================================================================
