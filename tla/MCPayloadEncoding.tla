-------------------------- MODULE MCPayloadEncoding --------------------------
(***************************************************************************)
(* Small requests for PayloadEncoding: one field of every kind a converter *)
(* builds at the top or in a list, with the optional keys that can meet in *)
(* one object; lists of two fields; previews with every set of titles and  *)
(* views; titles of every kind of character; and payloads of two slots.    *)
(***************************************************************************)
EXTENDS PayloadEncoding

MCAsk(builder, kind, number, optional, annotations, chars) ==
  [builder |-> builder, kind |-> kind, number |-> number, optional |-> optional,
   annotations |-> annotations, chars |-> chars]

MCAddressKeys == {"Name", "Memo", "AssetLabel", "BadgeText"}

MCText(chars) == MCAsk("text", "text_v2", "proper", {}, {}, chars)

\* What the Ethereum converter writes for the recipient of a transaction.
MCRecipient == MCAsk("literal", "address_v2", "proper", {"Name", "AssetLabel"}, {}, {"graphic"})

MCAmount(number) == MCAsk("amount", "amount_v2", number, {"Abbreviation"}, {}, {"graphic"})

\* The builders and what they are given.
MCBuilderAsks ==
  {MCText({"graphic"}), MCAsk("raw", "text_v2", "proper", {}, {}, {"graphic"})}
  \union {MCAsk(b, "number", n, o, {}, {"graphic"}) :
            b \in {"number", "amount"}, n \in {"empty", "proper", "improper"},
            o \in SUBSET {"Abbreviation"}}
  \union {MCAsk("address", "address_v2", "proper", o, {}, {"graphic"}) : o \in SUBSET MCAddressKeys}

\* Struct literals: every variant and every set of annotations.
MCLiteralAsks ==
  {MCAsk("literal", k, "proper", o, a, {"graphic"}) :
     k \in DOMAIN Variants \ {"preview_layout", "list_layout"},
     o \in {{}, {"Abbreviation"}, {"Name", "AssetLabel"}},
     a \in SUBSET Annotations}

\* Text with every set of at most two kinds of characters.
MCTextAsks == {MCText({c, d}) : c \in Chars, d \in Chars}

MCTop(ask) == [layout |-> "none", ask |-> ask]
MCList(asks) == [layout |-> "list", asks |-> asks, chars |-> {"graphic"}]
MCPreview(keys, condensed, expanded, chars) ==
  [layout |-> "preview", keys |-> keys, chars |-> chars,
   asks |-> [Condensed |-> condensed, Expanded |-> expanded]]

\* Both views of a preview, the expanded one of several fields.
MCViews ==
  {<<<<MCText({c})>>, <<MCRecipient, MCAmount(n)>>>> :
     c \in {"graphic", "unicode"}, n \in {"proper", "improper"}}
  \union {<<<<>>, <<MCAsk("literal", "amount_v2", "proper", {}, Annotations, {"graphic"}),
                    MCText({"delete"})>>>>}

MCPreviews ==
  {MCPreview(k, v[1], v[2], {"graphic"}) : k \in SUBSET (Titles \union Views), v \in MCViews}
  \union {MCPreview(Titles, <<>>, <<>>, {c}) : c \in Chars}

MCSlots ==
  {MCTop(a) : a \in MCBuilderAsks \union MCLiteralAsks \union MCTextAsks}
  \union {MCList(<<a>>) : a \in MCBuilderAsks \union MCLiteralAsks}
  \union {MCList(<<a, b>>) : a \in {MCRecipient, MCText({"backslash_u"})},
                             b \in MCLiteralAsks \union {MCAmount("improper")}}
  \union MCPreviews

MCRequests ==
  {[slots |-> <<s>>, header |-> {"PayloadType"}, chars |-> {"graphic"}] : s \in MCSlots}
  \union {[slots |-> <<MCTop(MCRecipient), s>>, header |-> h, chars |-> {"graphic"}] :
            s \in MCPreviews, h \in SUBSET {"PayloadType", "Subtitle"}}
  \union {[slots |-> <<>>, header |-> h, chars |-> {c}] :
            h \in SUBSET {"PayloadType", "Subtitle"}, c \in Chars}
=============================================================================
