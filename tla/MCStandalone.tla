------------------------------ MODULE MCStandalone -----------------------------
(* A handful of policies and files for Standalone.                             *)
EXTENDS Standalone

Lenient == [failurePolicy |-> "Ignore", matchConditions |-> <<"true", "error">>,
            validations |-> <<"allow">>]
Strict == [failurePolicy |-> "Fail", matchConditions |-> <<>>,
           validations |-> <<"null", "error">>]
Allows == [failurePolicy |-> "Fail", matchConditions |-> <<"true">>,
           validations |-> <<"null", "allow">>]
Elsewhere == [failurePolicy |-> "Fail", matchConditions |-> <<"error", "false">>,
              validations |-> <<"deny">>]
Undecided == [failurePolicy |-> "Fail", matchConditions |-> <<>>,
              validations |-> <<"null">>]

(* It denies the requests whose evaluation fails, but does not compile.        *)
Bad == [failurePolicy |-> "Fail", matchConditions |-> <<>>,
        validations |-> <<"ill-typed">>]

MCRefused == {Bad}
MCVersions == {Lenient, Strict, Allows, Elsewhere, Undecided, Bad}
MCContents == {<<Lenient, Undecided, Foreign, Bad, Allows>>, <<Elsewhere, Odd>>}
================================================================================
