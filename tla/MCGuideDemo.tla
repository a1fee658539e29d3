---------------------------- MODULE MCGuideDemo ----------------------------
(***************************************************************************)
(* The demos with the configuration they come with: the data and layout    *)
(* byte by byte, names and texts by their lengths.                         *)
(***************************************************************************)
EXTENDS GuideDemo

CONSTANTS payer, issuer, signer1, user

Text(length) == [i \in 1 .. length |-> 97]
Organization == Text(17)
Names == {Organization}
Basics == Text(41)
Descriptions == {Basics}

(* String, u8 and String; "test-user", 100 and "usa".                      *)
StringU8String == <<12, 0, 12>>
Layouts == {StringU8String}
NameAgeCountry ==
  <<9, 0, 0, 0>> \o Text(9) \o <<100>> \o <<3, 0, 0, 0>> \o Text(3)
AllData == {NameAgeCountry}
ThreeFields == [count |-> 3, bytes |-> 8 + 7 + 11]
AllFields == {ThreeFields}

Lists == {<<signer1>>, <<issuer>>, <<signer1, issuer>>}
Drifts == {-1, 1}

=============================================================================
