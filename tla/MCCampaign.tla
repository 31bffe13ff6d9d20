------------------------------- MODULE MCCampaign --------------------------------
(* A spec of two stories, the second of which waits for the first, whose own  *)
(* dependencies make no sense; and no spec, with a product owner's one story. *)
EXTENDS Campaign

CONSTANTS architect, api, apiTests

MCWithin == {<<api, apiTests>>}

MCEarlier == {<<api, apiTests>>}

MCSpecs == { <<[title |-> api, deps |-> {1, 3}], [title |-> apiTests, deps |-> {1}]>>, <<>> }

MCAnswers ==
  { <<[title |-> apiTests, deps |-> {0, 7},
       names |-> {[pos |-> 0, title |-> api, suffix |-> 0]}]>> }

MCSuites ==
  { [installs |-> FALSE, ends |-> TRUE, passed |-> 0, failed |-> 0, unparsable |-> 0],
    [installs |-> TRUE, ends |-> TRUE, passed |-> 9, failed |-> 1, unparsable |-> 1],
    [installs |-> TRUE, ends |-> TRUE, passed |-> 9, failed |-> 0, unparsable |-> 3],
    [installs |-> TRUE, ends |-> TRUE, passed |-> 0, failed |-> 0, unparsable |-> 0] }
=============================================================================
