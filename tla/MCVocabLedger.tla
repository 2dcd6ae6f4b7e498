------------------------------ MODULE MCVocabLedger ------------------------------
(* VocabLedger on five keys.  "kana" and "kanji" spell one word, which the   *)
(* tokenizer's second version counts under "kanji"; "cup" is another reading *)
(* of the same kanji and another word, and the tokenizer, given the spelling *)
(* alone, always answers "kanji".  "bare" is what an Anki import stores for  *)
(* a word whose full key is "full".                                         *)
EXTENDS VocabLedger

KeyNames  == {"kana", "kanji", "cup", "bare", "full"}
Spelling  == [kana |-> "kana", kanji |-> "kanji", cup |-> "kanji", bare |-> "full", full |-> "full"]
Meaning   == [kana |-> "lots", kanji |-> "lots", cup |-> "cup", bare |-> "decode", full |-> "decode"]
UseNames  == {"lots", "decode"}
Counted   == [old |-> [lots |-> "kana", decode |-> "full"],
              new |-> [lots |-> "kanji", decode |-> "full"]]
Repaired  == [kana |-> "kana", kanji |-> "kanji", cup |-> "cup", bare |-> "full", full |-> "full"]
Called    == [old |-> [Repaired EXCEPT !.cup = "kanji"],
              new |-> [Repaired EXCEPT !.cup = "kanji", !.kana = "kanji"]]
SomeDecks == {{}, {"kanji"}}
=============================================================================
