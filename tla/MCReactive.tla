----------------------------- MODULE MCReactive -----------------------------
EXTENDS Reactive
=============================================================================
