\* Two calls at once, three threads, a breaker that opens at the second failure.
CONSTANTS
    Calls = {c1, c2}
    Tools = {"send_email", "extract_page_state"}
    Writers = {t1, t2, t3}
    Threshold = 2
    None = None
SPECIFICATION FairSpec
INVARIANTS OneWriteThroughOpenBreaker PileUpTakesTimeouts
PROPERTIES CallsEnd FactsResume
