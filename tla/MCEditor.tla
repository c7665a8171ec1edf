------------------------------ MODULE MCEditor ------------------------------
EXTENDS Editor

MCWord == {"a", "b"} \cup ToSet(Digits)
MCMentionSafe == MCWord \cup {".", "-"}
MCEmojiSafe == MCWord \cup {"+", "-"}
MCChar == MCMentionSafe \cup MCEmojiSafe
            \cup {"@", "#", ":", "*", "~", "^", Tick, ">", " ", Newline, "[", "]", "(", ")",
                  Address, "url", "link text", "glyph"}
MCTyped == {"a", "@", "#", ":", "*", Newline}
MCOffers == [t \in Triggers |-> IF t = "@" THEN << <<"a">>, <<"b">> >> ELSE <<>>]
MCInserted == [t \in Triggers |-> [item \in {<<"a">>, <<"b">>} |-> <<t>> \o item]]
MCMembers == {<<"a">>, <<"b">>}
MCRoomId == [name \in {<<"a">>} |-> <<"b">>]
MCBuiltIn == [name \in {<<"a">>} |-> "glyph"]
MCCustomEmoji == {<<"b">>}
MCEmoji == {"glyph"}

\* A list changes under texts of up to two characters: no longer ones are needed
\* for a token with a name in it.
Short == list # Offers => Len(value) < MaxText
=============================================================================
