-------------------------------- MODULE MCStub --------------------------------
(* Stub with the options that tell its modes and conversions apart. *)
EXTENDS Stub

Option(mode, n, r) == [mode |-> mode, to_notify |-> n, to_request |-> r]

MCConfs == {Option("advance_response", FALSE, TRUE), Option("advance_response", TRUE, FALSE),
            Option("fake_response", FALSE, FALSE), Option("ignore_errors", TRUE, TRUE)}
=============================================================================
