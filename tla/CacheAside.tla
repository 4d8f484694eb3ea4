------------------------------- MODULE CacheAside -------------------------------
(***************************************************************************)
(* The service of src/go-zero/shorturl: calls that shorten a URL and expand   *)
(* a key, over a table and a cache in front of it.  The model layer hands      *)
(* queries and keys to sqlc, which is external: it reads the cache first,      *)
(* keeps what the query gives, and remembers for a while that there was        *)
(* nothing.                                                                  *)
(***************************************************************************)
EXTENDS Naturals

CONSTANTS Caller, Url,
          ShortKey,    \* what the first six digits of a hash may be
          Nothing,     \* no row, nothing in the cache
          Placeholder, \* in the cache: there was no row
          MaxCalls     \* bound on the calls

VARIABLES hash,     \* the key of each URL
          rows,     \* the table, whose primary key is the key
          cached,   \* the cache
          call,     \* what each caller is doing: its step and what it works with
          calls,    \* calls made so far
          answered  \* the keys given out, and the URL each was given for

vars == <<hash, rows, cached, call, calls, answered>>

Idle == [step |-> "idle", key |-> Nothing, url |-> Nothing]

TypeOK == /\ hash \in [Url -> ShortKey] /\ rows \in [ShortKey -> Url \cup {Nothing}]
          /\ cached \in [ShortKey -> Url \cup {Nothing, Placeholder}]
          /\ call \in [Caller -> [step : {"idle", "insert", "delete", "find", "query", "keep"},
                                  key : ShortKey \cup {Nothing}, url : Url \cup {Nothing}]]
          /\ calls \in 0..MaxCalls /\ answered \in [ShortKey -> Url \cup {Nothing}]

Init == /\ hash \in [Url -> ShortKey]
        /\ rows = [k \in ShortKey |-> Nothing] /\ cached = rows /\ answered = rows
        /\ call = [c \in Caller |-> Idle] /\ calls = 0

At(c, step) == call[c].step = step
Now(c, step, u) == call' = [call EXCEPT ![c] = [step |-> step, key |-> call[c].key, url |-> u]]
Goes(c, step) == Now(c, step, call[c].url)
Returns(c) == call' = [call EXCEPT ![c] = Idle]
Begins(c, step, k, u) == /\ At(c, "idle") /\ calls < MaxCalls
                         /\ call' = [call EXCEPT ![c] = [step |-> step, key |-> k, url |-> u]]
                         /\ calls' = calls + 1
                         /\ UNCHANGED <<hash, rows, cached, answered>>

(* Any call to the table or the cache may fail, and with it the call.         *)
Fails(c) == /\ ~At(c, "idle")
            /\ Returns(c)
            /\ UNCHANGED <<hash, rows, cached, calls, answered>>

(* Shorten: the row goes in, if its key is free, before the key leaves the     *)
(* cache; then the key is given out.                                         *)
Shorten(c, u) == Begins(c, "insert", hash[u], u)
Insert(c) == /\ At(c, "insert") /\ rows[call[c].key] = Nothing
             /\ rows' = [rows EXCEPT ![call[c].key] = call[c].url]
             /\ Goes(c, "delete")
             /\ UNCHANGED <<hash, cached, calls, answered>>
DeleteCached(c) == /\ At(c, "delete")
                   /\ cached' = [cached EXCEPT ![call[c].key] = Nothing]
                   /\ answered' = [answered EXCEPT ![call[c].key] = call[c].url]
                   /\ Returns(c)
                   /\ UNCHANGED <<hash, rows, calls>>

(* Expand: the cache, then the table, then the cache again.                   *)
Expand(c, k) == Begins(c, "find", k, Nothing)
FindOne(c) == /\ At(c, "find")
              /\ IF cached[call[c].key] = Nothing THEN Goes(c, "query") ELSE Returns(c)
              /\ UNCHANGED <<hash, rows, cached, calls, answered>>
Query(c) == /\ At(c, "query")
            /\ Now(c, "keep", rows[call[c].key])
            /\ UNCHANGED <<hash, rows, cached, calls, answered>>

(* A URL replaces what is in the cache, a placeholder replaces nothing.       *)
Keep(c) == LET k == call[c].key u == call[c].url IN
           /\ At(c, "keep")
           /\ cached' = [cached EXCEPT ![k] = IF u # Nothing THEN u
                                              ELSE IF @ = Nothing THEN Placeholder ELSE @]
           /\ Returns(c)
           /\ UNCHANGED <<hash, rows, calls, answered>>

Expire(k) == /\ cached[k] # Nothing
             /\ cached' = [cached EXCEPT ![k] = Nothing]
             /\ UNCHANGED <<hash, rows, call, calls, answered>>

Serve(c) == Insert(c) \/ DeleteCached(c) \/ FindOne(c) \/ Query(c) \/ Keep(c) \/ Fails(c)
Next == \/ \E c \in Caller : Serve(c) \/ (\E u \in Url : Shorten(c, u))
                             \/ (\E k \in ShortKey : Expand(c, k))
        \/ \E k \in ShortKey : Expire(k)

Spec == Init /\ [][Next]_vars

-------------------------------------------------------------------------------
(* Whatever the callers' order and the collisions of the hash, a key that was   *)
(* given out for a URL stays that URL's: the cache has nothing else, except     *)
(* that nothing may be known of it yet (shortenlogic.go:28-40).                *)
KeysKeepTheirUrl ==
    \A k \in ShortKey : /\ answered[k] # Nothing =>
                               rows[k] = answered[k] /\ hash[answered[k]] = k
                        /\ cached[k] \in Url => cached[k] = rows[k]
================================================================================
