------------------------------- MODULE MCAdmission ------------------------------
(* Two-bit addresses, one host for each verdict of the filter, and a host  *)
(* of another family whose address begins like an allowed network.         *)
EXTENDS Admission

MCHosts == {<<0, 0>>, <<0, 1>>, <<1, 0>>, <<0, 0, 0>>, NoIP}
MCAllow == <<Blank, CIDR(<<0, 1>>, 1)>>
MCBlock == <<Single(<<0, 1>>), CIDR(<<1, 1>>, 2)>>
MCOrder == <<"memory", "fd", "goroutine", "connection">>
MCMeasured == {"memory", "goroutine"}
================================================================================
