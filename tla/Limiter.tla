------------------------------ MODULE Limiter ------------------------------
(***************************************************************************)
(* rate_limiting/limiter: the fixed windows a billable request passes.     *)
(* The tests and hits of one call run without an await, so a request is    *)
(* one step; the windows of a bucket are this minute and this hour (the    *)
(* day's works as the hour's).                                             *)
(***************************************************************************)
EXTENDS Common

CONSTANTS
    Visitors,           \* client addresses
    PerMinute, PerHour, \* the tier's windows, as RATE_LIMITS gives them for a public key
    MintPerMinute, MintPerHour,
    FloorMinute, FloorHour,     \* the least an address gets: 3 and 30
    MinutesPerHour, MaxMinutes

\* every row of RATE_LIMITS gives a public key more than the least an address gets
ASSUME LimiterAssumption ==
    /\ {PerMinute, PerHour, MintPerMinute, MintPerHour, FloorMinute, FloorHour} \subseteq Nat
    /\ FloorMinute < PerMinute /\ FloorHour < PerHour

VARIABLES
    minute,     \* minutes passed
    hits,       \* hits of each bucket in its current windows
    served      \* requests let through: of each visitor and kind, in the current windows

limiterVars == <<minute, hits, served>>

Buckets == {"mint", "pubip"} \X Visitors \cup {<<"proj", "public">>}
Window == {"minute", "hour"}
Unhit == [w \in Window |-> 0]

-----------------------------------------------------------------------------
\* _public_ip_caps: half the tier's window, unless that is too little
MutIpCap(w) == IF w = "minute" THEN PerMinute ELSE PerHour     \* it is not halved
IpCap(w) == IF w = "minute" THEN Most(FloorMinute, PerMinute \div 2)
            ELSE Most(FloorHour, PerHour \div 2)

WindowCap(bucket, w) ==
    CASE bucket[1] = "mint" -> IF w = "minute" THEN MintPerMinute ELSE MintPerHour
      [] bucket[1] = "pubip" -> IpCap(w)
      [] bucket[1] = "proj" -> IF w = "minute" THEN PerMinute ELSE PerHour

\* _enforce_windows: every window is tested before any is hit
HasRoom(bucket) == \A w \in Window : hits[bucket][w] < WindowCap(bucket, w)
Hit(h, bucket) == [h EXCEPT ![bucket] = [w \in Window |-> @[w] + 1]]

\* enforce for POST .../auth/token: its own bucket, never the tier's
Mint(v) ==
    /\ IF HasRoom(<<"mint", v>>)
       THEN /\ hits' = Hit(hits, <<"mint", v>>)
            /\ served' = Hit(served, <<"mint", v>>)
       ELSE UNCHANGED <<hits, served>>
    /\ UNCHANGED minute

\* enforce for a billable POST with a public key: the visitor's windows, then the project's.
\* What the second refuses has been charged to the first
Convert(v) ==
    /\ LET ip == <<"pubip", v>>
           project == <<"proj", "public">>
       IN  IF ~HasRoom(ip) THEN UNCHANGED <<hits, served>>
           ELSE IF ~HasRoom(project) THEN hits' = Hit(hits, ip) /\ UNCHANGED served
           ELSE /\ hits' = Hit(Hit(hits, ip), project)
                /\ served' = Hit(Hit(served, ip), project)
    /\ UNCHANGED minute

\* the next fixed window begins
Turned(h, hour) ==
    [b \in Buckets |-> [w \in Window |-> IF w = "minute" \/ hour THEN 0 ELSE h[b][w]]]
NextMinute ==
    /\ minute < MaxMinutes /\ minute' = minute + 1
    /\ hits' = Turned(hits, minute' % MinutesPerHour = 0)
    /\ served' = Turned(served, minute' % MinutesPerHour = 0)

-----------------------------------------------------------------------------
LimiterInit ==
    /\ minute = 0
    /\ hits = [b \in Buckets |-> Unhit] /\ served = [b \in Buckets |-> Unhit]

LimiterNext == (\E v \in Visitors : Mint(v) \/ Convert(v)) \/ NextMinute

-----------------------------------------------------------------------------
(* Properties *)

\* One visitor of a shared key never uses up the minute or the hour of its project, whatever
\* the others do and whatever is refused, so "the backstop always engages BELOW the shared
\* project window" (limiter.py); nobody is served more than the window allows.
BackstopEngages ==
    /\ \A b \in Buckets, w \in Window : served[b][w] <= WindowCap(b, w)
    /\ \A v \in Visitors, w \in Window :
          served[<<"pubip", v>>][w] < WindowCap(<<"proj", "public">>, w)
=============================================================================
