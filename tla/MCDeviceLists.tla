----------------------------- MODULE MCDeviceLists -----------------------------
(* Small texts for DeviceLists: MACs of three characters, the first being  *)
(* the vendor's, names around the length of three, serials whose digits    *)
(* cover both halves of Nibble.                                            *)
EXTENDS DeviceListsProperties

SmallMacs == {<<50, 48, 49>>, <<50, 48, 50>>, <<70, 48, 49>>}
VendorOfTwo == <<50>>
ShortAndLongNames == {<<>>, <<97, 97, 97>>, <<98, 98, 98, 98>>, <<99, 99, 99, 99, 99, 99>>}
SomeSerials == {<<>>, <<71>>, <<9, 174>>, <<250, 16, 127>>}
eGeeTouch == <<101, 71, 101, 101, 84>>
unknow == <<117, 110, 107, 110, 111, 119>>
TornNames == {<<120, 120, 120, 120, 120, 120, 120, 120, 0, 120, 0>>}
=============================================================================
