---------------------------- MODULE MCPhoneBook ----------------------------
(***************************************************************************)
(* PhoneBook with two last names, one of which has a digit, so that a      *)
(* number can be found in a name.                                          *)
(***************************************************************************)
EXTENDS PhoneBook

MCTexts == {"a", "1", "2", "3"}
MCNumber == [t \in MCTexts |-> IF t = "1" THEN 1 ELSE IF t = "2" THEN 2 ELSE IF t = "3" THEN 3 ELSE 0]
MCHas == {<<1, "a">>, <<2, "a">>, <<2, "2">>}
=============================================================================
