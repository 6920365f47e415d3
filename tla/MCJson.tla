--------------------------------- MODULE MCJson ---------------------------------
(* Texts and the strings in them, each grown on its own: a text of tokens  *)
(* with no string looked into, the pieces of one string, or its characters.*)
EXTENDS JsonTextProperties, JsonStringProperties, JsonScan

SomeBytes == {9, 10, 27, 34, 65, 92, 110, 200}
SomeUnits == {0, 27, 65, 127, 128, 2047, 2048, 55296, 55357, 56319, 56320, 56832, 57343, 57344, 65535}

NothingYet == Init /\ InitPieces /\ InitChunks

TextOrString ==
    /\ NothingYet
    /\ [][\/ Next /\ pieces = <<>> /\ raw = <<>> /\ UNCHANGED <<pieces, raw, chunks>>
          \/ NextPiece /\ text = <<>> /\ raw = <<>> /\ UNCHANGED <<text, raw, chunks>>
          \/ NextChunk /\ text = <<>> /\ pieces = <<>> /\ UNCHANGED <<text, pieces>>
         ]_<<text, pieces, raw, chunks>>
=============================================================================
