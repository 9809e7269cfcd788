SPECIFICATION Spec
CONSTANTS
    ana = ana
    k1 = k1
    k2 = k2
    k3 = k3
    t1 = t1
    t2 = t2
    t3 = t3
    i1 = i1
    i2 = i2
    i3 = i3
    Workers = {w1, w2}
    Tokens <- MCTokens
    Inquiries <- MCInquiries
    Orders <- Retries
    TokenFor <- MCTokenFor
    InquiryOf <- MCInquiryOf
    MaxSends = 2
    Faults = {"crash", "io", "late", "ttl"}
SYMMETRY WorkerSymmetry
INVARIANTS
    TypeOK
    Conserved
    MarkedIsDead
    OneTxnPerInquiry
