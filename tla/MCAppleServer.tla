----------------------------- MODULE MCAppleServer -----------------------------
(* Values of AppleServer's constants for TLC.                              *)
EXTENDS AppleServer

CONSTANTS a, b

OneOrBoth == {<<a>>, <<a, b>>}
CreatedMetadataOrDropped ==
    {{"ItemCreated", "ItemIsFile"}, {"ItemXattrMod"}, {"MustScanSubDirs", "UserDropped"}}
===============================================================================
