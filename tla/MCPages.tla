------------------------------ MODULE MCPages -------------------------------
(* Instances for TLC of the pages of the browser that several people work    *)
(* on: the page of an order (OrderThread: a long history in which nobody     *)
(* edits, and a new order that everybody edits), the card behind it          *)
(* (OrderEdits), the page of a chat (ChatThread) and the board of orders     *)
(* (OrderBoard: filters and a failure, or an order that moves). A behaviour  *)
(* is of one of them, and the others keep still.                             *)
EXTENDS OrderThread

CONSTANTS
    Orders, Columns, Selected, NoStatus, Filters, Searches, Matches,
    MaxMoves, MaxFilters, MaxLoads, MaxErrors,
    Editors, Photos, Sketches, Values, MaxCardEdits, MaxCardFaults,
    MaxChatMessages, MaxChatPosts, MaxTexts, MaxChatFaults, MaxSockets

VARIABLES
    part,
    status, sync, filter, due, columns, turn, awaited, requests, dragged,
    moves, filters, loads, errors,
    photos, pins, dates, local, remote, asked, request, wanted, cardEdits, cardFaults,
    texts, chat, unsaid, joined, wire, chatPage, chatCalls, chatPosts, rewrites,
    chatFaults, sockets

threadVars == vars
boardVars == <<status, sync, filter, due, columns, turn, awaited, requests, dragged,
               moves, filters, loads, errors>>
cardVars == <<photos, pins, dates, local, remote, asked, request, wanted, cardEdits, cardFaults>>
chatVars == <<texts, chat, unsaid, joined, wire, chatPage, chatCalls, chatPosts, rewrites,
              chatFaults, sockets>>

Board == INSTANCE OrderBoard WITH
    calls <- requests, faults <- errors, MaxFaults <- MaxErrors
Edits == INSTANCE OrderEdits WITH
    MaxEdits <- MaxCardEdits, MaxFaults <- MaxCardFaults, edits <- cardEdits, faults <- cardFaults
Chat == INSTANCE ChatThread WITH
    page <- chatPage, calls <- chatCalls, posts <- chatPosts, edits <- rewrites,
    faults <- chatFaults, MaxMessages <- MaxChatMessages, MaxPosts <- MaxChatPosts,
    MaxEdits <- MaxTexts, MaxFaults <- MaxChatFaults

ASSUME BoardIsABoard == Board!BoardAssumption

MCColumns == <<"s1", "s2">>
MCMatches == [f \in Filters |-> IF f \in Searches THEN {1} ELSE Orders]

MCInit ==
    /\ part \in {"board", "thread", "card", "chat"}
    /\ Init /\ Board!Init /\ Edits!Init /\ Chat!Init
    /\ IF part = "board"
       THEN \/ moves = MaxMoves /\ loads + errors = 1 /\ status[1] = Columns[1]
            \/ /\ filters = MaxFilters /\ errors = MaxErrors
               /\ \A o \in Orders : status[o] = Columns[1]
       ELSE /\ moves = 0 /\ filters = 0 /\ loads = 0 /\ errors = 0
            /\ \A o \in Orders : status[o] = Columns[1]
    /\ IF part # "thread" THEN count = 0 /\ posts = 0 /\ edits = 0 ELSE
       \/ posts = 0 /\ edits = MaxEdits
       \/ count = 0 /\ posts = MaxPosts /\ edits = 0
    /\ IF part = "card" THEN cardEdits + cardFaults = 1 ELSE cardEdits = 0 /\ cardFaults = 0
    /\ remote.rest = CHOOSE v \in Values : TRUE
    /\ part # "chat" => texts = <<>>

MCNext ==
    \/ part = "board" /\ Board!Next /\ UNCHANGED <<part, threadVars, cardVars, chatVars>>
    \/ part = "thread" /\ Next /\ UNCHANGED <<part, boardVars, cardVars, chatVars>>
    \/ part = "card" /\ Edits!Next /\ UNCHANGED <<part, boardVars, threadVars, chatVars>>
    \/ part = "chat" /\ Chat!Next /\ UNCHANGED <<part, boardVars, threadVars, cardVars>>

MCSpec == MCInit /\ [][MCNext]_<<part, boardVars, threadVars, cardVars, chatVars>>

\* What a column of the board shows passes the filters (OrderBoard).
ColumnsMatchTheFilter == Board!ColumnsMatchTheFilter

\* Additions of overlapping requests stay (OrderEdits).
AdditionsStay == Edits!AdditionsStay

\* The messages the page of a chat has are those of the chat, once each (ChatThread).
ThreadHasNoHole == Chat!ThreadHasNoHole
=============================================================================
