---------------------------- MODULE MCValidation ----------------------------
EXTENDS Validation

CONSTANTS s1, s2

\* Nothing depends on the order of two drafts, so the second is written once
\* the first is submitted; the rows that change behind the application are
\* those of the first.
InOrder ==
  /\ sub'[s2] # Blank => sub'[s1].digest # None
  /\ edits' # edits => sub'[s1] # sub[s1]

MCSpec == VInit /\ [][VNext /\ InOrder]_vvars /\ VFairness
=============================================================================
