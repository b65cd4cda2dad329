--------------------------- MODULE MCAutoMachine ---------------------------
(* Small instances of AutoMachine for TLC. *)
EXTENDS AutoMachine, TLC

CONSTANTS ca, cb, cA

\* A capital comes before the small letters.
Letters == <<cA, ca, cb>>
ToUpper == cA :> cA @@ ca :> cA @@ cb :> cb

\* Words that are prefixes, suffixes and inner parts of each other, or become so
\* when case is ignored.
Overlapping ==
  {<<ca>>, <<cA, cb>>, <<ca, cb, ca>>, <<cb, ca, cb>>}

\* A word, and one that goes on where it ends, as 'abc' and 'abcd' do.
GoingOn == {<<ca, cb>>, <<ca, cb, ca>>}
=============================================================================
