----------------------------- MODULE MCReceiver -----------------------------
(* Instances of Receiver for TLC. *)
EXTENDS Receiver

OnePowerLoss    == {<<"power">>}
OneProcessCrash == {<<"process">>}

NoneMalformed == {}
OneMalformed  == {1}

=============================================================================
