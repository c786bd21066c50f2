---------------------------- MODULE MCDisplay ----------------------------
(***************************************************************************)
(* An instance of the device for TLC.  Every text fills its page of one    *)
(* column; with more of them there are millions of screens, and what holds *)
(* for texts of any length is proved in DisplayProofs.                     *)
(***************************************************************************)
EXTENDS DisplayProperties, TLC

MCFailure == {"Modem error"}
MCStatus == {"Messages"}
MCTexts == {"DM", "Operator", "Phone"} \cup MCFailure \cup MCStatus
MCLength == [t \in MCTexts |-> 1]
=============================================================================
