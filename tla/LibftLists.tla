----------------------------- MODULE LibftLists -----------------------------
(***************************************************************************)
(* The linked lists of libft over a heap.  A caller makes elements, adds   *)
(* them to its lists and deletes, iterates over and maps those.  The       *)
(* recursive functions run one frame at a time, and the functions given to *)
(* them (del, f) are called in the order of the code.  An allocation may   *)
(* fail.  del frees the content; f of lstiter rewrites it; f of lstmap     *)
(* makes an element with lstnew.                                           *)
(***************************************************************************)
EXTENDS Integers, FiniteSetsExt, SequencesExt

CONSTANTS
  Nodes, Blocks,  \* addresses of elements and of contents
  Lists,          \* the caller's list variables
  Values, F,      \* contents, and what f makes of them
  NULL

ASSUME FAssumption == F \in [Values -> Values] /\ NULL \notin Nodes \cup Blocks \cup Values

\* Memory is finite; what malloc made for an element is no content.
ASSUME HeapAssumption == IsFiniteSet(Nodes) /\ Nodes \cap Blocks = {}

VARIABLES
  live, used,     \* elements and contents allocated
  next, content,  \* the fields of an element
  data,           \* what a content holds
  head,           \* *alst of each list
  made,           \* the element lstnew returned last, until it is added
  leaked,         \* what lstnew forgets when it fails or copies nothing, and what
                  \* stood behind an element given to lstdelone
  pc, list,       \* the function under way and the list it was given
  stack, back,    \* its frames, and whether the deeper call has returned
  fresh,          \* the fresh of lstmap's frames
  start, called   \* the list when the call was made, the elements del or f got

heap == <<live, used, next, content, data>>
caller == <<head, made, leaked>>
frames == <<pc, list, stack, back, fresh>>
history == <<start, called>>
vars == <<heap, caller, frames, history>>

\* The elements from n on, read through next, and NULL once they have ended.
Walk(n) ==
  LET walk[k \in 0..Cardinality(Nodes)] ==
        IF k = 0 THEN n ELSE IF walk[k-1] = NULL THEN NULL ELSE next[walk[k-1]]
  IN walk

ListFrom(n) == [k \in {k \in 1..Cardinality(Nodes) : Walk(n)[k-1] # NULL} |-> Walk(n)[k-1]]

ValueOf(e) == IF content[e] = NULL THEN NULL ELSE data[content[e]]
Mapped(v) == IF v = NULL THEN NULL ELSE F[v]
Valued(elements) == [k \in 1..Len(elements) |-> <<elements[k], ValueOf(elements[k])>>]

Init ==
  /\ live = {} /\ used = {} /\ next = [n \in Nodes |-> NULL]
  /\ content = [n \in Nodes |-> NULL] /\ data = [b \in Blocks |-> NULL]
  /\ head = [l \in Lists |-> NULL] /\ made = NULL /\ leaked = {}
  /\ pc = "idle" /\ list = NULL /\ stack = <<>> /\ back = FALSE /\ fresh = <<>>
  /\ start = <<>> /\ called = <<>>

-----------------------------------------------------------------------------
(* Elements *)

\* n and b with the value v, or n without a content.
Alloc(n, b, v) ==
  /\ n \in Nodes \ live /\ b \in Blocks \ used
  /\ live' = live \cup {n} /\ used' = used \cup {b}
  /\ next' = [next EXCEPT ![n] = NULL]
  /\ content' = [content EXCEPT ![n] = IF v = NULL THEN NULL ELSE b]
  /\ data' = [data EXCEPT ![b] = v]

\* Two allocations.  When one fails the result r is NULL and what was allocated
\* before it is lost; so is the second block when there is nothing to copy.
lstnew_returns(v, r) ==
  \/ r # NULL /\ \E b \in Blocks : Alloc(r, b, v) /\ leaked' = leaked \cup (IF v = NULL THEN {b} ELSE {})
  \/ r = NULL /\ UNCHANGED <<heap, leaked>>
  \/ /\ r = NULL /\ \E n \in Nodes \ live : live' = live \cup {n} /\ leaked' = leaked \cup {n}
     /\ UNCHANGED <<used, next, content, data>>

ft_lstnew(v) ==
  /\ pc = "idle" /\ made = NULL
  /\ \E r \in Nodes \cup {NULL} : lstnew_returns(v, r) /\ made' = r
  /\ start' = <<>> /\ called' = <<>>
  /\ UNCHANGED <<head, frames>>

\* Mutated: the list is moved before the element is linked.
ft_lstadd_swapped(l) ==
  /\ pc = "idle" /\ made # NULL
  /\ next' = [next EXCEPT ![made] = made] /\ head' = [head EXCEPT ![l] = made]
  /\ made' = NULL /\ start' = <<>> /\ called' = <<>>
  /\ UNCHANGED <<live, used, content, data, leaked, frames>>

ft_lstadd(l) ==
  /\ pc = "idle" /\ made # NULL
  /\ next' = [next EXCEPT ![made] = head[l]] /\ head' = [head EXCEPT ![l] = made]
  /\ made' = NULL /\ start' = <<>> /\ called' = <<>>
  /\ UNCHANGED <<live, used, content, data, leaked, frames>>

\* del frees the content, then the element goes.
Free(n) ==
  /\ live' = live \ {n} /\ used' = used \ {content[n]}
  /\ content' = [content EXCEPT ![n] = NULL]
  /\ data' = [b \in Blocks |-> IF b = content[n] THEN NULL ELSE data[b]]

\* The elements after the first.
Behind(l) == Range(ListFrom(head[l])) \ {head[l]}

\* The list becomes NULL, whatever stood behind the element: that is lost.
ft_lstdelone(l) ==
  /\ pc = "idle" /\ head[l] # NULL /\ Free(head[l])
  /\ head' = [head EXCEPT ![l] = NULL] /\ next' = [next EXCEPT ![head[l]] = NULL]
  /\ leaked' = leaked \cup Behind(l) \cup ({content[n] : n \in Behind(l)} \ {NULL})
  /\ start' = <<>> /\ called' = <<>>
  /\ UNCHANGED <<made, frames>>

-----------------------------------------------------------------------------
(* Recursive functions *)

Top == Last(stack)

Call(f, l) ==
  /\ pc = "idle" /\ pc' = f /\ list' = l /\ stack' = <<head[l]>> /\ back' = FALSE /\ fresh' = <<>>
  /\ start' = Valued(ListFrom(head[l])) /\ called' = <<>>
  /\ UNCHANGED <<heap, caller>>

\* lstdel reads the first element without a test.
Segv == pc' = "segv" /\ UNCHANGED <<heap, caller, list, stack, back, fresh, history>>

lstdel(l) == IF head[l] = NULL THEN pc = "idle" /\ Segv ELSE Call("lstdel", l)
lstiter(l) == head[l] # NULL /\ Call("lstiter", l)
\* The result goes to a list variable that has none.
lstmap(l) == head[l] # NULL /\ (\E m \in Lists : head[m] = NULL) /\ Call("lstmap", l)

\* One call deeper while there is a next element.
Deeper ==
  /\ ~back /\ next[Top] # NULL /\ stack' = Append(stack, next[Top])
  /\ UNCHANGED <<heap, caller, pc, list, back, fresh, history>>

\* Mutated: the element gets its call whether or not the ones after it had theirs.
Ready_first == TRUE
Ready == back \/ next[Top] = NULL

Leave == stack' = Front(stack) /\ back' = TRUE /\ pc' = IF Len(stack) = 1 THEN "idle" ELSE pc

\* Mutated: the pointer to the element is left.
ft_lstdel_dangling ==
  /\ pc = "lstdel" /\ Ready /\ Free(Top) /\ Leave
  /\ next' = [next EXCEPT ![Top] = NULL]
  /\ UNCHANGED <<head, made, leaked, list, fresh, start>>
  /\ called' = Append(called, Top)

\* lstdelone of the last element: the pointer it was reached by becomes NULL.
ft_lstdel ==
  /\ pc = "lstdel" /\ Ready /\ Free(Top) /\ Leave
  /\ head' = IF Len(stack) = 1 THEN [head EXCEPT ![list] = NULL] ELSE head
  /\ next' = [n \in Nodes |-> IF n = Top \/ next[n] = Top THEN NULL ELSE next[n]]
  /\ UNCHANGED <<made, leaked, list, fresh, start>>
  /\ called' = Append(called, Top)

ft_lstiter ==
  /\ pc = "lstiter" /\ Ready /\ Leave
  /\ data' = [b \in Blocks |-> IF b = content[Top] THEN Mapped(data[b]) ELSE data[b]]
  /\ called' = Append(called, Top)
  /\ UNCHANGED <<live, used, next, content, caller, list, fresh, start>>

\* f(lst) comes before the deeper call, which is made when there is a next
\* element; its result is then written to what f returned, without a test.
ft_lstmap ==
  /\ pc = "lstmap" /\ ~back
  /\ \E r \in Nodes \cup {NULL} :
       /\ lstnew_returns(Mapped(ValueOf(Top)), r) /\ fresh' = Append(fresh, r)
       /\ pc' = IF r = NULL /\ next[Top] # NULL THEN "segv" ELSE pc
  /\ IF next[Top] # NULL THEN stack' = Append(stack, next[Top]) /\ UNCHANGED back
     ELSE back' = TRUE /\ UNCHANGED stack
  /\ called' = Append(called, Top)
  /\ UNCHANGED <<head, made, list, start>>

lstmap_return ==
  /\ pc = "lstmap" /\ back
  /\ IF Len(stack) = 1
     THEN /\ \E m \in Lists : head[m] = NULL /\ head' = [head EXCEPT ![m] = fresh[1]]
          /\ pc' = "idle" /\ fresh' = <<>> /\ UNCHANGED next
     ELSE /\ next' = [next EXCEPT ![fresh[Len(stack)-1]] = fresh[Len(stack)]]
          /\ fresh' = Front(fresh) /\ UNCHANGED <<pc, head>>
  /\ stack' = Front(stack)
  /\ UNCHANGED <<live, used, content, data, made, leaked, list, back, history>>

Caller ==
  \/ \E v \in Values \cup {NULL} : ft_lstnew(v)
  \/ \E l \in Lists : ft_lstadd(l) \/ ft_lstdelone(l) \/ lstdel(l) \/ lstiter(l) \/ lstmap(l)

Next ==
  \/ Caller
  \/ pc \in {"lstdel", "lstiter"} /\ Deeper
  \/ ft_lstdel \/ ft_lstiter \/ ft_lstmap \/ lstmap_return
  \/ pc = "segv" /\ UNCHANGED vars

Spec == Init /\ [][Next]_vars

-----------------------------------------------------------------------------
(* Properties *)

\* What the caller and lstmap's frames hold on to.
Roots == ({head[l] : l \in Lists} \cup {made} \cup Range(fresh)) \ {NULL}

\* Whatever was called, frames half done included: every list ends, an element
\* is in one list only, once, its content is its own, nothing freed is in a
\* list, and what is allocated is in a list, or was lost by lstnew, or stood
\* behind an element lstdelone took; nothing else is ever lost.
ListsOwnHeap ==
  pc # "segv" =>
    /\ \A r \in Roots : IsInjective(ListFrom(r)) /\ Last(ListFrom(r)) \in {n \in Nodes : next[n] = NULL}
    /\ \A r, q \in Roots : r # q => Range(ListFrom(r)) \cap Range(ListFrom(q)) = {}
    /\ UNION {Range(ListFrom(r)) : r \in Roots} = live \ leaked
    /\ {content[n] : n \in live \ leaked} \ {NULL} = used \ leaked
    /\ \A n, m \in live : n # m /\ content[n] # NULL => content[n] # content[m]

\* del and the f of lstiter get every element once, the last one first, the f of
\* lstmap the first one first.  lstdel leaves no list; lstiter and lstmap leave
\* the elements in their order, and lstmap another list of what f made of each
\* (but the last one, where f had no memory for it).
CallbacksInOrder ==
  pc = "idle" /\ called # <<>> =>
    LET old == [k \in 1..Len(start) |-> start[k][1]]
        mapped == [k \in 1..Len(start) |-> Mapped(start[k][2])]
        Values_of(l) == [k \in 1..Len(ListFrom(head[l])) |-> ValueOf(ListFrom(head[l])[k])]
    IN \/ called = Reverse(old) /\ head[list] = NULL /\ Range(old) \cap live = {}
       \/ called = Reverse(old) /\ ListFrom(head[list]) = old /\ Values_of(list) = mapped
       \/ /\ called = old /\ Valued(ListFrom(head[list])) = start
          /\ \E m \in Lists \ {list} : Values_of(m) \in {mapped, Front(mapped)}
=============================================================================
