------------------------------ MODULE Listings ------------------------------
(***************************************************************************)
(* Listing write-back (apps/local-node/src/main.rs, modules 2 and 3, and   *)
(* crates/ozon-connector): a product is read from Ozon, restyled pictures  *)
(* or a redistributed copy are made for it, and the operator pushes them   *)
(* back.  Every request passes the lease gate and loads the Ozon account   *)
(* once (NodeSettings); the models are looked up in the registry.  Between *)
(* the read and the write of a push the seller, or another push, may       *)
(* change the product.                                                     *)
(*                                                                         *)
(* A picture is identified with its URL and stays the same when Ozon       *)
(* re-hosts it; a list of pictures without repetition is a set, its order  *)
(* is left out.  Names and values of attributes are their normal forms     *)
(* (module3_normalize).  One product per account is modelled.              *)
(***************************************************************************)
EXTENDS NodeSettings

CONSTANTS
    SellerPictures,     \* pictures the seller has
    Galleries,          \* the pictures of the live product, and who serves them
    Restyled,           \* pictures the image model makes
    MaxCandidates,      \* RELIST_MAX_CANDIDATES
    Drafts,             \* copies the text model or the operator may write
    SourceAttributes,   \* the attributes of the live product
    DictionaryNames,    \* attributes of the category with a value dictionary
    FreeNames,          \* attributes of the category with free text
    Pages,              \* the dictionary as Ozon serves it, page by page
    MaxPages            \* pages the connector reads at most

\* A text is not empty text.
ASSUME TextsAssumption == Blank \notin {"old", "new"}

VARIABLES
    shop,       \* the live product of every account
    owned,      \* history: pictures the seller put on it
    candidates, \* restyled pictures the operator can choose
    draft,      \* the copy under review
    report      \* what the last copy push wrote and reported

listing == <<shop, owned, candidates, draft, report>>

Pictures == SellerPictures \cup Restyled

\* images: the primary picture and the gallery.  colour: the colour pictures, of
\* which a read takes the first.  extra: the 360 pictures.  unlisted: the pictures
\* that only the attributes endpoint serves.
Gallery == [images : SUBSET Pictures, colour : SUBSET Pictures, extra : SUBSET Pictures,
            unlisted : SUBSET Pictures]
PicturesOf(g) == g.images \cup g.colour \cup g.extra

ASSUME GalleriesAssumption == Galleries \subseteq Gallery

Fields(title, description, attributes) ==
    [title |-> title, description |-> description, attributes |-> attributes]

-----------------------------------------------------------------------------
(* The connector.                                                           *)

\* The workbench names a product by number, by offer or by both; the number wins
\* and the connector wants exactly one.
into_lookup(target) == IF target = "both" THEN "product_id" ELSE target
validate_lookup(lookup) == lookup \in {"product_id", "offer_id"}

\* A picture that is in the list already is skipped.
push_images(images, urls) == images \cup urls

\* strings_from_value(..).next(): the first of a list, or none.
FirstOf(pictures) == IF pictures = {} THEN {{}} ELSE {{s} : s \in pictures}

\* The colour picture that a read takes: the list endpoint's, else the attributes'.
ColourPicture(g, attributes) ==
    FirstOf(IF attributes /\ g.colour \subseteq g.unlisted THEN g.colour
            ELSE g.colour \ g.unlisted)

\* Mutant: the colour and 360 pictures are not collected.
detail_from_info_item_NoExtra(g, colour) == push_images({}, g.images)

\* detail_from_info_item, apply_attribute_supplement: primary, gallery, colour
\* and 360 pictures, each once.
detail_from_info_item(g, colour) == push_images(push_images(push_images({}, g.images), colour), g.extra)

\* product_get: the list endpoint must answer; attributes, with the pictures that it
\* does not list, and description are best effort.  module3_source_fields reads the
\* four fields off the result.
Detail(p, colour, attributes, description) ==
    [images |-> detail_from_info_item(p.gallery, colour) \ (IF attributes THEN {} ELSE p.gallery.unlisted),
     source |-> Fields(p.title, IF description THEN p.description ELSE Blank,
                       IF attributes THEN SourceAttributes ELSE {})]

\* A read that cannot have every picture: there are several colour pictures, or the
\* attributes endpoint did not answer although it alone serves some.
Incomplete(g, attributes) ==
    (\E s, t \in g.colour : s # t) \/ (~ attributes /\ g.unlisted # {})

\* Mutant: the cursor follows the values that are kept, so a page of blanks ends
\* the reading.
PagesRead_Filtered ==
    CHOOSE n \in 1..Len(Pages) :
        /\ n = Len(Pages) \/ Pages[n] \ {Blank} = {} \/ n = MaxPages
        /\ \A i \in 1..(n - 1) : Pages[i] \ {Blank} # {} /\ i # MaxPages

\* description_category_attribute_values reads on until the last page, the page
\* cap, or a page without ids.
PagesRead ==
    CHOOSE n \in 1..Len(Pages) :
        /\ n = Len(Pages) \/ Pages[n] = {} \/ n = MaxPages
        /\ \A i \in 1..(n - 1) : Pages[i] # {} /\ i # MaxPages

description_category_attribute_values == (UNION {Pages[i] : i \in 1..PagesRead}) \ {Blank}

\* pictures_import replaces the whole list; the colour and 360 lists are cleared.
pictures_import(p, images) ==
    [p EXCEPT !.gallery = [@ EXCEPT !.images = images, !.colour = {}, !.extra = {}]]

\* Mutant: empty texts are sent as well.
product_update_copy_Blank(p, fields) ==
    [p EXCEPT !.title = fields.title, !.description = fields.description]

\* product_update_copy sends the title and the description that are not empty.
product_update_copy(p, fields) ==
    [p EXCEPT !.title = IF fields.title = Blank THEN @ ELSE fields.title,
              !.description = IF fields.description = Blank THEN @ ELSE fields.description]

-----------------------------------------------------------------------------
(* Matching a reviewed copy with the dictionary of the category.            *)

Written(a, values) ==
    {<<a.name, v>> : v \in {w \in a.values \ {Blank} :
        a.name \in FreeNames \/ (a.name \in DictionaryNames /\ w \in values)}}

Dropped(a, values) ==
    IF a.name \notin DictionaryNames \cup FreeNames THEN {<<a.name, None>>}
    ELSE IF a.name \in DictionaryNames
    THEN {<<a.name, v>> : v \in a.values \ (values \cup {Blank})}
    ELSE IF a.values \subseteq {Blank} THEN {<<a.name, None>>} ELSE {}

module3_match_attributes(attributes, values) ==
    [written |-> UNION {Written(a, values) : a \in attributes},
     dropped |-> UNION {Dropped(a, values) : a \in attributes}]

\* The dictionaries that have to be fetched before the match.
module3_referenced_dictionary_ids(attributes) ==
    {a.name : a \in attributes} \cap DictionaryNames

-----------------------------------------------------------------------------
(* Steps of the requests.                                                   *)

\* The item is finished, or failed: the next one, or the answer.
NextItem(c) ==
    call' = [call EXCEPT ![c] = IF @.todo > 1
                                THEN [@ EXCEPT !.at = "ozon", !.todo = call[c].todo - 1,
                                               !.product = None, !.round = 0, !.made = {}]
                                ELSE Done]

\* Product counts and lists, with a second look at the archive when the first is
\* empty, and validate_ozon_config: Ozon is read, nothing is kept.
ozon_products_read(c) ==
    /\ call[c].at = "ozon" /\ call[c].kind \in {"read", "validate"}
    /\ Finish(c)
    /\ UNCHANGED <<settings, world, faults, listing>>

\* What follows a product that was read.
AfterGet(kind) == CASE kind = "relist_push" -> "import"
                    [] kind = "copy_push" -> "dictionary"
                    [] OTHER -> "registry"

\* What the later steps of a request use of it: the pictures or the source fields.
Kept(kind, detail) == CASE kind \in {"generate", "relist_push"} -> detail.images
                        [] kind = "recognize" -> detail.source
                        [] OTHER -> None

\* product_get for one item of a batch; it fails when the product is not named or
\* not found, or when Ozon does not answer.  Restyling needs a picture.
product_get(c) ==
    /\ call[c].at = "ozon" /\ call[c].kind \notin {"read", "validate"}
    /\ \/ \E target \in {"product_id", "offer_id", "both", "none"},
             attributes \in BOOLEAN, description \in BOOLEAN :
            LET p == shop[call[c].account]
            IN  \E colour \in ColourPicture(p.gallery, attributes) :
                  LET detail == Detail(p, colour, attributes, description)
                  IN  /\ validate_lookup(into_lookup(target))
                      /\ call[c].kind = "generate" => detail.images # {}
                      /\ call' = [call EXCEPT ![c].at = AfterGet(call[c].kind),
                                              ![c].product = Kept(call[c].kind, detail)]
                      /\ spoiled' = IF call[c].kind = "relist_push" /\ Incomplete(p.gallery, attributes)
                                    THEN spoiled \cup {"gallery"} ELSE spoiled
       \/ NextItem(c) /\ UNCHANGED spoiled
    /\ UNCHANGED <<layers, cache, shown, saved, world, faults, listing>>

\* The key of a capability, once the registry is known; call.value goes back to
\* the input.
Provider(c, cap, key) ==
    LET registry == call[c].value[1]
        ref == ProviderRef(registry, cap)
    IN  IF ref = None THEN key = Err /\ UNCHANGED <<layers, faults>>
        ELSE \E answer \in {store[ref], file[ref], Err} :
               Resolve(ref, answer) /\ key = resolve_capability(registry, cap, answer)

\* A text request takes an entry of the chat kind only, whose key was found or not.
IsChat(registry) ==
    FirstEnabled(registry, "text") # 0 /\ registry[FirstEnabled(registry, "text")].kind = "chat"

\* generate_poster_background: the poster is answered, the product stays.
poster_generate(c) ==
    /\ call[c].at = "routed" /\ call[c].kind = "poster"
    /\ \E key \in Keys \cup {Err, Corrupt} : Provider(c, "image", key)
    /\ Finish(c)
    /\ UNCHANGED <<copies, world, listing>>

\* relist_host_image tries the hosts in order and takes the first URL.
relist_host_image(hosts) == \E i \in DOMAIN hosts : hosts[i]

\* relist_download and relist_edit_image: the source picture goes to the image
\* model, which needs its key and may fail.
edit_image(key, edited) == key # Err /\ edited

\* One attempt of relist_generate_one: edit the picture and host the result.  An
\* item with one candidate or more succeeds.
relist_edit_image(c) ==
    /\ call[c].at = "routed" /\ call[c].kind = "generate"
    /\ \E key \in Keys \cup {Err, Corrupt}, edited \in BOOLEAN,
          hosts \in [1..2 -> BOOLEAN] :
         /\ Provider(c, "image", key)
         /\ LET hosted == edit_image(key, edited) /\ relist_host_image(hosts)
                round == call[c].round + 1
            IN  \E made \in IF hosted THEN {call[c].made \cup {r} : r \in Restyled}
                            ELSE {call[c].made} :
                  /\ candidates' = IF round = MaxCandidates THEN candidates \cup made
                                   ELSE candidates
                  /\ IF round = MaxCandidates THEN NextItem(c)
                     ELSE call' = [call EXCEPT ![c].at = "registry", ![c].round = round,
                                               ![c].made = made, ![c].value = @[2]]
    /\ UNCHANGED <<copies, world, shop, owned, draft, report>>

\* What the text model may answer; without a key or a chat provider nothing.
module3_request_proposal(registry, key) ==
    IF key # Err /\ IsChat(registry) THEN Drafts ELSE {}

\* module3_recognize_one: the model's answer, or on any failure the source fields,
\* is the proposal.
chat_completion(c) ==
    /\ call[c].at = "routed" /\ call[c].kind = "recognize"
    /\ \E key \in Keys \cup {Err, Corrupt} :
         /\ Provider(c, "text", key)
         /\ draft' \in {call[c].product} \cup module3_request_proposal(call[c].value[1], key)
    /\ NextItem(c)
    /\ UNCHANGED <<copies, world, shop, owned, candidates, report>>

\* relist_push_one: the new primary picture, then the pictures that were read.
relist_push_one(c) ==
    /\ call[c].at = "import"
    /\ LET images == {call[c].value} \cup call[c].product
       IN  \/ shop' = [shop EXCEPT ![call[c].account] = pictures_import(@, images)]
           \/ UNCHANGED shop        \* refused, or Ozon does not answer
    /\ NextItem(c)
    /\ UNCHANGED <<settings, world, faults, owned, candidates, draft, report>>

\* module3_push_one: dictionaries, match, preview; a confirmed one goes on to the
\* write.  It fails without a category or without the dictionaries.
module3_push_one(c) ==
    /\ call[c].at = "dictionary"
    /\ LET fields == call[c].value[1]
           fetched == IF module3_referenced_dictionary_ids(fields.attributes) = {} THEN {}
                      ELSE description_category_attribute_values
           outcome == module3_match_attributes(fields.attributes, fetched)
       IN  \/ /\ report' = [fields |-> fields, written |-> outcome.written,
                            dropped |-> outcome.dropped]
              /\ IF call[c].value[2] THEN Goto(c, "update") ELSE NextItem(c)
           \/ NextItem(c) /\ UNCHANGED report
    /\ UNCHANGED <<settings, world, faults, shop, owned, candidates, draft>>

\* ... which Ozon accepts, or not.
module3_push_write(c) ==
    /\ call[c].at = "update"
    /\ \/ shop' = [shop EXCEPT ![call[c].account] = product_update_copy(@, call[c].value[1])]
       \/ UNCHANGED shop
    /\ NextItem(c)
    /\ UNCHANGED <<settings, world, faults, owned, candidates, draft, report>>

\* The seller adds a picture on Ozon's own site.
seller_edit(a) ==
    /\ \E s \in SellerPictures \ owned[a] :
         /\ shop' = [shop EXCEPT ![a].gallery.images = @ \cup {s}]
         /\ owned' = [owned EXCEPT ![a] = @ \cup {s}]
    /\ workload \cap {"relist_push"} # {}
    /\ spoiled' = IF \E c \in Calls : call[c].at = "import" /\ call[c].account = a
                  THEN spoiled \cup {"gallery"} ELSE spoiled
    /\ UNCHANGED <<layers, cache, shown, saved, world, faults, call, candidates, draft, report>>

ListingsInit ==
    /\ \E g \in Galleries :
         /\ workload \cap {"generate", "relist_push"} = {} => PicturesOf(g) = {}
         /\ shop = [a \in Accounts |-> [title |-> "old", description |-> "old", gallery |-> g]]
         /\ owned = [a \in Accounts |-> PicturesOf(g)]
    /\ candidates = {}
    /\ draft = None
    /\ report = None

-----------------------------------------------------------------------------
(* Properties.                                                              *)

\* "Recompute the live image list at push time so we never set a stale or wrong
\* gallery": however pushes interleave, are repeated or fail half-way, no picture
\* of the seller disappears from the product, unless the seller changed it between
\* the read and the import of a push, or the read was Incomplete.
GalleryIsKept ==
    \A a \in Accounts :
        "gallery" \in spoiled \/ owned[a] \subseteq PicturesOf(shop[a].gallery)

\* A push never empties the title or the description of a live product, although
\* a degraded read makes an empty description the proposal under review.
CopyIsNotBlanked ==
    \A a \in Accounts : shop[a].title # Blank /\ shop[a].description # Blank

\* "Anything that does not match is DROPPED + reported - never written with a
\* guessed numeric id": every proposed value is written exactly when the category
\* knows it and is otherwise reported, by value or with its whole attribute.  An
\* attribute without values is reported too, except one with a dictionary.
CopyIsAccountedFor ==
    report # None =>
        \A a \in report.fields.attributes :
            LET known(v) == \/ a.name \in FreeNames
                            \/ a.name \in DictionaryNames
                               /\ \E i \in 1..Len(Pages) : v \in Pages[i]
            IN  /\ \A v \in a.values \ {Blank} :
                     /\ <<a.name, v>> \in report.written <=> known(v)
                     /\ known(v) \/ {<<a.name, v>>, <<a.name, None>>} \cap report.dropped # {}
                /\ a.values \subseteq {Blank} /\ a.name \notin DictionaryNames
                     => <<a.name, None>> \in report.dropped
=============================================================================
