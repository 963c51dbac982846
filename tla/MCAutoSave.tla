----------------------------- MODULE MCAutoSave -----------------------------
(***************************************************************************)
(* Instances of AutoSave for TLC.                                          *)
(***************************************************************************)
EXTENDS AutoSaveProperties

CONSTANTS e1, e2

TwoVersions == {0, 1}
OneEditor   == {e1}
TwoEditors  == {e1, e2}

FullStores   == {"full"}
ScopedStores == {"namespace"}
NoStores     == {}
=============================================================================
