------------------------------ MODULE MCCanvas ------------------------------
\* Instances of CanvasAutoSave for TLC.
EXTENDS CanvasProperties

CONSTANTS d1, d2

OneDir == {d1}
TwoDirs == {d1, d2}
=============================================================================
