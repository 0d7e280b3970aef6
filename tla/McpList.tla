------------------------------- MODULE McpList -------------------------------
(***************************************************************************)
(* Listing tools page by page (handle_tools_list in mcp/protocol.cpp;      *)
(* resources and prompts are listed by copies of its loop).  The tables do *)
(* not change once the server is made, and an unordered_map that does not  *)
(* change is always gone through in the same order.  The loop passes over  *)
(* what the role may not use before it counts anything, so the order that  *)
(* matters is that of the visible tools; but it tells that there is more   *)
(* by the size of the whole table.                                         *)
(*                                                                         *)
(* The client is external: it asks for the next page with the cursor it    *)
(* was given and a limit of its own, and stops when it is given no cursor  *)
(* or, if it is careful, an empty page.                                    *)
(***************************************************************************)
EXTENDS McpProtocol, Integers, Sequences, FiniteSets

CONSTANTS
    Registered,     \* the tools in the table
    Limits,         \* `_limit` of the client's requests
    DefaultLimit,   \* 100
    LimitCap        \* 1000

NoCursor == -1

ASSUME ListAssumption ==
    /\ IsFiniteSet(Registered) /\ Registered \subseteq Tools
    /\ Limits \subseteq Int
    /\ DefaultLimit \in Nat \ {0} /\ LimitCap \in Nat \ {0}

VARIABLES
    order,      \* the visible tools in the order of the map
    lister,     \* the role of the client's token
    careful,    \* what kind of client it is
    cursor,     \* `_nextCursor` of the last page, or NoCursor
    seen,       \* the tools of all pages so far
    stopped

listVars == <<order, lister, careful, cursor, seen, stopped>>

Visible(role) == Registered \cap Allowed(role)

(* The orders the visible tools can be in. *)
Orders(S) == {o \in [1..Cardinality(S) -> S] : \A x \in S : \E i \in DOMAIN o : o[i] = x}

ListInit ==
    /\ lister \in Roles
    /\ order \in Orders(Visible(lister))
    /\ careful \in BOOLEAN
    /\ cursor = 0
    /\ seen = <<>>
    /\ stopped = FALSE

-----------------------------------------------------------------------------
AtMost(x, y) == IF x <= y THEN x ELSE y

Limited(limit) == AtMost(IF limit <= 0 THEN DefaultLimit ELSE limit, LimitCap)

(* i when the loop is left: how many visible tools it has passed or listed. *)
After(from, limit) == AtMost(Len(order), from + Limited(limit))

PageSkipping(from, limit) == SubSeq(order, from + 2, After(from, limit))
Page(from, limit) == SubSeq(order, from + 1, After(from, limit))

NextCursorListed(from, limit) ==
    IF After(from, limit) < Cardinality(Registered) THEN Len(Page(from, limit)) ELSE NoCursor
NextCursor(from, limit) ==
    IF After(from, limit) < Cardinality(Registered) THEN After(from, limit) ELSE NoCursor

FollowCursor ==
    /\ ~stopped
    /\ \E limit \in Limits :
          /\ seen' = seen \o Page(cursor, limit)
          /\ cursor' = NextCursor(cursor, limit)
          /\ stopped' = (cursor' = NoCursor \/ (careful /\ Page(cursor, limit) = <<>>))
    /\ UNCHANGED <<order, lister, careful>>

ListNext == FollowCursor

ListSpec == ListInit /\ [][ListNext]_listVars

-----------------------------------------------------------------------------
ListTypeOK ==
    /\ lister \in Roles /\ careful \in BOOLEAN /\ stopped \in BOOLEAN
    /\ order \in Orders(Visible(lister))
    /\ cursor \in 0..Cardinality(Registered) \cup {NoCursor}
    /\ seen \in Seq(Registered)

(* tools/list and tools/call decide by the same table, each in code of its  *)
(* own.  A client that stopped, with whatever limits it asked for pages,   *)
(* was shown every visible tool once, and these are the tools its calls    *)
(* are not refused for.                                                    *)
CallOf(tool) == [method |-> "tools/call", name |-> tool, id |-> NoId,
                 auth |-> lister, inner |-> NoRole]

ListedIsCallable ==
    stopped =>
        /\ seen = order
        /\ {seen[i] : i \in DOMAIN seen} = {tool \in Registered : Admitted(CallOf(tool), TRUE)}

(* Paging comes to an end, though a role that may not use all tools is      *)
(* given a cursor with every page: each page is a step ahead in the table  *)
(* or the last one, unless such a client waits for the cursor to be left   *)
(* out.                                                                    *)
PagingAdvances ==
    [][careful \/ Visible(lister) = Registered => stopped' \/ cursor' > cursor]_listVars
=============================================================================
