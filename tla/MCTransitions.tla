---------------------------- MODULE MCTransitions ----------------------------
(* What a user says of seats and of a phone, what the planner notes of it   *)
(* ("Prefers aisle seats."), and what the patterns find in each text.       *)
EXTENDS TransitionCoordinator

CONSTANTS
    aisle,      \* I prefer aisle seats.
    window,     \* I now prefer window seats.
    short,      \* I prefer window seats for short work trips.
    work,       \* I prefer aisle seats for work trips.
    make,       \* Actually, make it window.
    makeFor,    \* Actually, make it window for personal trips.
    switch,     \* I switched from window seats to aisle seats.
    middle,     \* I used to prefer aisle seats, but now I prefer middle seats.
    drop,       \* Forget that I prefer aisle seats.
    dropSeat,   \* Forget my seat preference.
    dropAnd,    \* Forget that I prefer aisle seats; I prefer window seats.
    dropBoth,   \* Forget my seat preference and my phone.
    ask,        \* Do you remember that I prefer aisle seats?
    once,       \* Just this once, window seat.
    phone,      \* My phone is a Pixel.
    aisleNote, windowNote, shortNote, workNote, middleNote, phoneNote

Plain(t) ==
    [surface |-> t, kind |-> "preference", marks |-> {}, compound |-> FALSE, past |-> Unknown,
     finds |-> << >>, elliptic |-> None, scope |-> None, words |-> {}, cues |-> {},
     old |-> [switched_from_to |-> {}, instead_of |-> {}, no_longer |-> {}],
     topic |-> {}, parts |-> <<>>, hint |-> None, tokens |-> {}, named |-> {}]

Part(tokens, kind) == [tokens |-> tokens, entities |-> {}, kind |-> kind]

Aisle   == {"aisle", "aisle seats"}
Window  == {"window", "window seats"}
Middle  == {"middle", "middle seats"}
Asking  == {"affirmative_forget", "memory_language", "removal"}

Seat(t, forms, tokens) ==
    [Plain(t) EXCEPT !.finds = "seat" :> forms, !.words = forms,
                     !.tokens = tokens \cup {"prefer", "seat"}]
SeatFor(t, forms, tokens, scope) ==
    [Seat(t, forms, tokens \cup {"trip", "work"}) EXCEPT !.scope = scope]

ReadingOf ==
    aisle     :> Seat(aisle, Aisle, {"aisle"})
 @@ aisleNote :> Seat(aisleNote, Aisle, {"aisle"})
 @@ window    :> [Seat(window, Window, {"now", "window"}) EXCEPT !.cues = {"now"}]
 @@ windowNote :> Seat(windowNote, Window, {"window"})
 @@ middleNote :> Seat(middleNote, Middle, {"middle"})
 @@ short     :> SeatFor(short, Window, {"short", "window"}, "short work trips")
 @@ shortNote :> SeatFor(shortNote, Window, {"short", "window"}, "short work trips")
 @@ work      :> SeatFor(work, Aisle, {"aisle"}, "work trips")
 @@ workNote  :> SeatFor(workNote, Aisle, {"aisle"}, "work trips")
 @@ make      :> [Plain(make) EXCEPT
        !.kind = "instruction", !.elliptic = "window", !.words = {"window"},
        !.cues = {"correction_lead"}, !.tokens = {"actually", "make", "window"}]
 @@ makeFor   :> [Plain(makeFor) EXCEPT
        !.kind = "instruction", !.elliptic = "window", !.words = {"window"},
        !.scope = "personal trips", !.cues = {"correction_lead"},
        !.tokens = {"actually", "make", "personal", "trip", "window"}]
 @@ switch    :> [Seat(switch, Aisle \cup Window, {}) EXCEPT
        !.cues = {"switched_from_to"}, !.old.switched_from_to = {"window"},
        !.tokens = {"aisle", "from", "seat", "switched", "window"}]
 @@ middle    :> [Seat(middle, Middle, {"aisle", "but", "middle", "now", "used"}) EXCEPT
        !.marks = {"historical"}, !.compound = TRUE, !.past = "aisle",
        !.words = Aisle \cup Middle, !.cues = {"now", "replacement_clause", "used_to"}]
 @@ drop      :> [Seat(drop, Aisle, {"aisle", "forget"}) EXCEPT
        !.cues = Asking, !.parts = <<Part({"aisle", "seat"}, None)>>]
 @@ dropSeat  :> [Plain(dropSeat) EXCEPT
        !.cues = Asking, !.parts = <<Part({"seat"}, "preference")>>, !.hint = "preference",
        !.tokens = {"forget", "preference", "seat"}]
 @@ dropAnd   :> [Seat(dropAnd, Aisle \cup Window, {"aisle", "forget", "window"}) EXCEPT
        !.cues = Asking \cup {"replacement_clause"}, !.parts = <<Part({"aisle", "seat"}, None)>>]
 @@ dropBoth  :> [Plain(dropBoth) EXCEPT
        !.cues = Asking, !.hint = "preference",
        !.parts = <<Part({"seat"}, "preference"), Part({"phone"}, None)>>,
        !.tokens = {"forget", "phone", "preference", "seat"}]
 @@ ask       :> [Seat(ask, Aisle, {"aisle"}) EXCEPT
        !.marks = {"question"}, !.cues = {"inspection", "memory_language"}]
 @@ once      :> [Seat(once, {"window", "window seat"}, {}) EXCEPT
        !.marks = {"temporary"}, !.cues = {"current_turn"},
        !.tokens = {"just", "once", "seat", "window"}]
 @@ phone     :> [Plain(phone) EXCEPT !.kind = "fact", !.finds = "phone_model" :> {"pixel"},
                                     !.words = {"pixel"}, !.tokens = {"phone", "pixel"}]
 @@ phoneNote :> [Plain(phoneNote) EXCEPT !.kind = "fact", !.finds = "phone_model" :> {"pixel"},
                                         !.words = {"pixel"}, !.tokens = {"phone", "pixel"}]

(* The tokens of the attributes, values and scopes above. *)
WordsTable ==
    [w \in {"seat", "aisle", "window", "middle", "pixel", "general", "personal"} |-> {w}]
    @@ "phone_model" :> {"phone", "model"}
    @@ "work_trip" :> {"work", "trip"} @@ "short_work_trip" :> {"short", "work", "trip"}
PrefixedTokens == {<<"prefer", "preference">>, <<"preference", "prefer">>}

NoteOf ==
    [t \in Statements |->
        CASE t \in {aisle, ask} -> aisleNote [] t \in {window, dropAnd} -> windowNote
          [] t = short -> shortNote [] t = work -> workNote
          [] t = middle -> middleNote [] t = phone -> phoneNote [] OTHER -> None]

(* Scoped or not, texts of one value are of one meaning to the matcher. *)
MeaningOf ==
    [c \in Contents |->
        IF c \in {aisle, work, aisleNote, workNote} THEN aisle
        ELSE IF c \in {window, short, windowNote, shortNote, make, makeFor} THEN window
        ELSE IF c \in {middle, middleNote} THEN middle
        ELSE IF c \in {phone, phoneNote} THEN phone ELSE c]

Config(mode, runtime, precedence) ==
    [mode |-> mode, runtime |-> runtime, precedence |-> precedence]

StoresOf ==
    {<<>>, <<aisle>>, <<window>>, <<aisle, phone>>, <<aisleNote, windowNote>>, <<work, short>>}

ConfigsOf ==
    {Config("adopted", TRUE, TRUE), Config("adopted", FALSE, FALSE),
     Config("verify_only", FALSE, FALSE)}

(* The two lexicons agree on these statements, which is what the theorem    *)
(* about corrections asks for.                                              *)
ASSUME NotesMatch == \A t \in Statements : Durable(Identity[t]) => NoteMatches(t)
=============================================================================
