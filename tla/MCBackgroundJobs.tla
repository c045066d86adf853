--------------------------- MODULE MCBackgroundJobs ---------------------------
EXTENDS BackgroundJobs, TLC
CONSTANTS m1, m2
MCRotation == <<m1, m2>>
=============================================================================
