---------------------------- MODULE CommerceProofs ---------------------------
(***************************************************************************)
(* Proofs about selling and serving, for all values of the constants of    *)
(* SalesOrders, PointOfSale and Receivables.                               *)
(*                                                                         *)
(* The point of sale and invoices are proved about here, SalesOrders in a  *)
(* module of its own.  A behaviour of Commerce that starts in one of their *)
(* scenes is a behaviour of that component and stays in it, so what is     *)
(* proved of the component holds in its scenes, and with it the properties *)
(* that the run of Commerce checks.                                        *)
(***************************************************************************)
EXTENDS Commerce, SalesOrdersProofs, TLAPS

-----------------------------------------------------------------------------
(* The point of sale, for any sessions, sales, items, prices, taxes and    *)
(* parts of a unit.  Everything follows from sums: what a sale keeps is a  *)
(* sum over its lines of differences of cumulative amounts, and the        *)
(* accounts and the stock are sums over the sales.  First what rounding    *)
(* does to a quotient, and one change to a sum.                            *)

\* A quotient lies between its remainders.
LEMMA Quotient ==
  ASSUME NEW a \in Int, NEW b \in Nat \ {0}
  PROVE  a \div b \in Int /\ b * (a \div b) <= a /\ a < b * (a \div b) + b
  OBVIOUS

\* ... and is the only number that does.
LEMMA QuotientIs ==
  ASSUME NEW a \in Int, NEW b \in Nat \ {0}, NEW q \in Int, b * q <= a, a < b * q + b
  PROVE  a \div b = q
<1> DEFINE d == a \div b
<1>1. d \in Int /\ b * d <= a /\ a < b * d + b
  BY Quotient
<1> HIDE DEF d
<1>2. ASSUME NEW m \in Int, NEW n \in Int, m < n PROVE b * m + b <= b * n
  BY <1>2
<1>3. ~ (d < q) /\ ~ (q < d)
  BY <1>1, <1>2
<1> QED
  BY <1>1, <1>3 DEF d

\* A number below the divisor has none.
LEMMA QuotientOfSmall ==
  ASSUME NEW a \in Int, NEW b \in Nat \ {0}, 0 <= a, a < b
  PROVE  a \div b = 0
<1>1. b * 0 <= a /\ a < b * 0 + b
  OBVIOUS
<1> QED
  BY <1>1, QuotientIs

\* Multiples grow with the number of times.
LEMMA ProductMonotone ==
  ASSUME NEW n \in Nat, NEW m \in Nat, NEW k \in Nat, n <= m
  PROVE  /\ k * n \in Int /\ k * m \in Int /\ k * n <= k * m
         /\ n * k \in Int /\ m * k \in Int /\ n * k <= m * k
<1>1. PICK d \in Nat : m = n + d
  <2>1. m - n \in Nat /\ m = n + (m - n)
    OBVIOUS
  <2> QED
    BY <2>1
<1>2. k * n \in Int /\ k * d \in Nat /\ k * m = k * n + k * d
  BY <1>1
<1>3. n * k = k * n /\ m * k = k * m
  OBVIOUS
<1> QED
  BY <1>2, <1>3

\* A larger number has a larger quotient.
LEMMA QuotientMonotone ==
  ASSUME NEW a \in Int, NEW c \in Int, NEW b \in Nat \ {0}, a <= c
  PROVE  a \div b <= c \div b
<1> DEFINE d == a \div b
           e == c \div b
<1>1. d \in Int /\ b * d <= a /\ e \in Int /\ c < b * e + b
  BY Quotient
<1> HIDE DEF d, e
<1>2. ASSUME e < d PROVE b * e + b <= b * d
  BY <1>1, <1>2
<1>3. ~ (e < d)
  BY <1>1, <1>2
<1> QED
  BY <1>1, <1>3 DEF d, e

\* Changing one value changes a sum by the difference.
LEMMA SumChange ==
  ASSUME NEW S, IsFiniteSet(S), NEW f, NEW g, NEW e \in S, NEW d \in Int,
         \A x \in S : f[x] \in Int, g[e] = f[e] + d, \A x \in S : x = e \/ g[x] = f[x]
  PROVE  SumFunctionOnSet(g, S) = SumFunctionOnSet(f, S) + d
<1>0. \A x \in S : g[x] \in Int
  OBVIOUS
<1>1. IsFiniteSet(S \ {e})
  BY FS_Subset
<1>2. SumFunctionOnSet(f, S) = f[e] + SumFunctionOnSet(f, S \ {e})
  BY SumRemove
<1>3. SumFunctionOnSet(g, S) = g[e] + SumFunctionOnSet(g, S \ {e})
  BY <1>0, SumRemove
<1>4. SumFunctionOnSet(f, S \ {e}) = SumFunctionOnSet(g, S \ {e})
  BY <1>0, <1>1, SumAgree
<1>5. SumFunctionOnSet(f, S \ {e}) \in Int
  BY <1>1, SumInt
<1> QED
  BY <1>2, <1>3, <1>4, <1>5

-----------------------------------------------------------------------------
(* Amounts of a line.                                                      *)

\* The lines of a sale.
SaleLineRows == [item : Articles \cup {NoItem}, qty : 1..TillQty, price : Prices, tax : Taxes]

\* What is known of a line ...
LEMMA RowIs ==
  ASSUME NEW r \in SaleLineRows
  PROVE  r.qty \in Nat \ {0} /\ r.price \in Nat /\ r.tax \in Nat
<1>1. r.qty \in 1..TillQty /\ r.price \in Prices /\ r.tax \in Taxes
  BY DEF SaleLineRows
<1>2. r.qty \in Nat \ {0}
  BY <1>1, TillAssumption
<1>3. r.price \in Nat
  BY <1>1, TillAssumption
<1>4. r.tax \in Nat
  BY <1>1, TillAssumption
<1> QED
  BY <1>2, <1>3, <1>4

\* ... and of all lines of a sale.
LEMMA SaleLinesAre ==
  ASSUME NEW lines \in SaleLines
  PROVE  /\ \E n \in 1..TillLines : lines \in [1..n -> SaleLineRows]
         /\ IsFiniteSet(DOMAIN lines)
         /\ \A l \in DOMAIN lines :
              /\ lines[l] \in SaleLineRows /\ lines[l].qty \in Nat \ {0}
              /\ lines[l].price \in Nat /\ lines[l].tax \in Nat
<1>1. PICK n \in 1..TillLines : lines \in [1..n -> SaleLineRows]
  BY DEF SaleLines, SaleLineRows
<1>2. DOMAIN lines = 1..n /\ IsFiniteSet(1..n)
  BY <1>1, FS_Interval, TillAssumption
<1>3. \A l \in DOMAIN lines : lines[l] \in SaleLineRows
  BY <1>1
<1> QED
  BY <1>1, <1>2, <1>3, RowIs

\* A line's amounts start at zero, grow with its quantity and reach its tax.
LEMMA AmountsOf ==
  ASSUME NEW line \in SaleLineRows
  PROVE  /\ \A n \in Nat : SubtotalOf(line, n) \in Int /\ TaxOf(line, n) \in Int
         /\ SubtotalOf(line, 0) = 0 /\ TaxOf(line, 0) = 0
         /\ \A n, m \in Nat : n <= m => SubtotalOf(line, n) <= SubtotalOf(line, m) /\ TaxOf(line, n) <= TaxOf(line, m)
         /\ TaxOf(line, line.qty) = line.tax
<1> DEFINE h == Unit \div 2
<1>1. /\ line.qty \in Nat \ {0} /\ line.price \in Nat /\ line.tax \in Nat
      /\ Unit \in Nat \ {0}
  BY RowIs, TillAssumption
<1>2. h \in Int /\ 0 <= h /\ h < Unit /\ 2 * line.qty \in Nat \ {0}
  BY <1>1, Quotient
<1> HIDE DEF h
<1>3. ASSUME NEW n \in Nat
      PROVE  /\ n * line.price \in Nat /\ n * line.price + h \in Int
             /\ line.tax * n \in Nat /\ 2 * (line.tax * n) + line.qty \in Int
  BY <1>1, <1>2
<1>4. ASSUME NEW n \in Nat
      PROVE  SubtotalOf(line, n) = (n * line.price + h) \div Unit
  BY DEF SubtotalOf, RoundThousandths, h
<1>5. ASSUME NEW n \in Nat
      PROVE  TaxOf(line, n) = (2 * (line.tax * n) + line.qty) \div (2 * line.qty)
  BY DEF TaxOf, RoundFraction
<1>6. ASSUME NEW n \in Nat PROVE SubtotalOf(line, n) \in Int /\ TaxOf(line, n) \in Int
  BY <1>1, <1>2, <1>3, <1>4, <1>5, Quotient
<1>7. SubtotalOf(line, 0) = 0
  <2>1. 0 * line.price + h = h
    BY <1>1, <1>2
  <2>2. h \div Unit = 0
    BY <1>1, <1>2, QuotientOfSmall
  <2> QED
    BY <1>4, <2>1, <2>2
<1>8. TaxOf(line, 0) = 0
  <2>1. 2 * (line.tax * 0) + line.qty = line.qty
    BY <1>1
  <2>2. line.qty \div (2 * line.qty) = 0
    <3>1. line.qty \in Int /\ 0 <= line.qty /\ line.qty < 2 * line.qty
      BY <1>1
    <3> QED
      BY <1>2, <3>1, QuotientOfSmall
  <2> QED
    BY <1>5, <2>1, <2>2
<1>9. ASSUME NEW n \in Nat, NEW m \in Nat, n <= m
      PROVE  SubtotalOf(line, n) <= SubtotalOf(line, m) /\ TaxOf(line, n) <= TaxOf(line, m)
  <2>1. n * line.price + h <= m * line.price + h
    <3>1. n * line.price \in Int /\ m * line.price \in Int /\ n * line.price <= m * line.price
      BY <1>1, <1>9, ProductMonotone
    <3> QED
      BY <1>2, <3>1
  <2>2. 2 * (line.tax * n) + line.qty <= 2 * (line.tax * m) + line.qty
    <3>1. line.tax * n \in Int /\ line.tax * m \in Int /\ line.tax * n <= line.tax * m
      BY <1>1, <1>9, ProductMonotone
    <3> QED
      BY <1>1, <3>1
  <2>3. (n * line.price + h) \div Unit <= (m * line.price + h) \div Unit
    BY <1>1, <1>3, <2>1, QuotientMonotone
  <2>4. (2 * (line.tax * n) + line.qty) \div (2 * line.qty) <= (2 * (line.tax * m) + line.qty) \div (2 * line.qty)
    BY <1>2, <1>3, <2>2, QuotientMonotone
  <2> QED
    BY <1>4, <1>5, <2>3, <2>4
<1>10. TaxOf(line, line.qty) = line.tax
  <2> DEFINE q == line.qty
             a == 2 * (line.tax * q) + q
  <2>1. q \in Nat \ {0} /\ a \in Int /\ 2 * q \in Nat \ {0} /\ (2 * q) * line.tax <= a /\ a < (2 * q) * line.tax + 2 * q
    BY <1>1
  <2> HIDE DEF a
  <2>2. a \div (2 * q) = line.tax
    BY <1>1, <2>1, QuotientIs
  <2> QED
    BY <1>1, <1>5, <2>2 DEF a
<1> QED
  BY <1>6, <1>7, <1>8, <1>9, <1>10

-----------------------------------------------------------------------------
(* Amounts of a sale.                                                      *)

\* The rows of sales, and what the invariant says of the sold ones.
SaleRows == [status : {"none", "paid"}, session : Sessions \cup {NoItem},
             lines : SaleLines \cup {<<>>}, stocked : BOOLEAN, total : Int, credited : Int,
             returned : UNION {[1..n -> Nat] : n \in 0..TillLines}]

\* What a sold line has kept and given back.
LEMMA SoldLine ==
  ASSUME NEW r, SaleIsSound(r), NEW l \in DOMAIN r.lines
  PROVE  /\ r.lines[l] \in SaleLineRows /\ r.lines[l].qty \in Nat /\ r.lines[l].tax \in Nat
         /\ r.returned[l] \in Nat /\ r.returned[l] <= r.lines[l].qty
         /\ SubtotalOf(r.lines[l], r.lines[l].qty) \in Int
         /\ SubtotalOf(r.lines[l], r.returned[l]) \in Int /\ TaxOf(r.lines[l], r.returned[l]) \in Int
         /\ SubtotalOf(r.lines[l], r.returned[l]) <= SubtotalOf(r.lines[l], r.lines[l].qty)
         /\ TaxOf(r.lines[l], r.returned[l]) <= r.lines[l].tax
<1> DEFINE line == r.lines[l]
           n == r.returned[l]
<1>1. line \in SaleLineRows /\ line.qty \in Nat /\ line.tax \in Nat /\ n \in Nat /\ n <= line.qty
  BY SaleLinesAre DEF SaleIsSound
<1> HIDE DEF line, n
<1>2. /\ SubtotalOf(line, line.qty) \in Int /\ SubtotalOf(line, n) \in Int /\ TaxOf(line, n) \in Int
      /\ SubtotalOf(line, n) <= SubtotalOf(line, line.qty)
      /\ TaxOf(line, n) <= TaxOf(line, line.qty) /\ TaxOf(line, line.qty) = line.tax
  BY <1>1, AmountsOf
<1> QED
  BY <1>1, <1>2 DEF line, n

\* What a sale keeps is never negative.
LEMMA KeptNat ==
  ASSUME NEW r, SaleIsSound(r)
  PROVE  /\ RevenueKept(r) \in Nat /\ TaxKept(r) \in Nat
         /\ \A i : GoodsKept(r, i) \in Nat
<1>1. IsFiniteSet(DOMAIN r.lines)
  BY SaleLinesAre DEF SaleIsSound
<1> DEFINE f == [l \in DOMAIN r.lines |-> SubtotalOf(r.lines[l], r.lines[l].qty) - SubtotalOf(r.lines[l], r.returned[l])]
           g == [l \in DOMAIN r.lines |-> r.lines[l].tax - TaxOf(r.lines[l], r.returned[l])]
           h(i) == [l \in DOMAIN r.lines |-> IF r.lines[l].item = i THEN r.lines[l].qty - r.returned[l] ELSE 0]
<1>2. ASSUME NEW l \in DOMAIN r.lines PROVE f[l] \in Nat /\ g[l] \in Nat
  BY SoldLine
<1>3. ASSUME NEW l \in DOMAIN r.lines, NEW i PROVE h(i)[l] \in Nat
  BY SoldLine
<1>4. DOMAIN f = DOMAIN r.lines /\ DOMAIN g = DOMAIN r.lines /\ \A i : DOMAIN h(i) = DOMAIN r.lines
  OBVIOUS
<1>5. RevenueKept(r) = SumFunction(f) /\ TaxKept(r) = SumFunction(g) /\ \A i : GoodsKept(r, i) = SumFunction(h(i))
  BY DEF RevenueKept, TaxKept, GoodsKept
<1> HIDE DEF f, g, h
<1> QED
  BY <1>1, <1>2, <1>3, <1>4, <1>5, SumNat DEF SumFunction

\* What has been paid for a sale and not refunded is revenue and tax of what it
\* keeps, which is nothing once all came back.
LEMMA PaidIsKept ==
  ASSUME NEW r, SaleIsSound(r)
  PROVE  /\ r.total - r.credited = RevenueKept(r) + TaxKept(r)
         /\ r.total \in Int /\ r.credited \in Int
         /\ (\A l \in DOMAIN r.lines : r.returned[l] = r.lines[l].qty) => r.credited = r.total
<1> DEFINE S == DOMAIN r.lines
           a == [l \in S |-> SubtotalOf(r.lines[l], r.lines[l].qty)]
           b == [l \in S |-> r.lines[l].tax]
           c == [l \in S |-> SubtotalOf(r.lines[l], r.returned[l]) + TaxOf(r.lines[l], r.returned[l])]
           f == [l \in S |-> SubtotalOf(r.lines[l], r.lines[l].qty) - SubtotalOf(r.lines[l], r.returned[l])]
           g == [l \in S |-> r.lines[l].tax - TaxOf(r.lines[l], r.returned[l])]
           k == [l \in S |-> f[l] + g[l]]
           t == [l \in S |-> a[l] + b[l]]
<1>1. IsFiniteSet(S)
  BY SaleLinesAre DEF SaleIsSound
<1>2. /\ r.total = SumFunctionOnSet(a, S) + SumFunctionOnSet(b, S)
      /\ r.credited = SumFunctionOnSet(c, S)
      /\ RevenueKept(r) = SumFunctionOnSet(f, S) /\ TaxKept(r) = SumFunctionOnSet(g, S)
  BY DEF SaleIsSound, Subtotal, Tax, RevenueKept, TaxKept, SumFunction
<1>3. ASSUME NEW l \in S
      PROVE  /\ a[l] \in Int /\ b[l] \in Int /\ c[l] \in Int /\ f[l] \in Int /\ g[l] \in Int
             /\ t[l] = a[l] + b[l] /\ k[l] = f[l] + g[l] /\ t[l] = k[l] + c[l]
             /\ t[l] \in Int /\ k[l] \in Int
  BY SoldLine
<1>4. ASSUME \A l \in S : r.returned[l] = r.lines[l].qty, NEW l \in S
      PROVE  t[l] = c[l]
  <2>1. TaxOf(r.lines[l], r.lines[l].qty) = r.lines[l].tax
    BY SoldLine, AmountsOf
  <2> QED
    BY <1>4, <2>1
<1> HIDE DEF a, b, c, f, g, k, t, S
<1>5. SumFunctionOnSet(t, S) = SumFunctionOnSet(a, S) + SumFunctionOnSet(b, S)
  BY <1>1, <1>3, SumPlus
<1>6. SumFunctionOnSet(k, S) = SumFunctionOnSet(f, S) + SumFunctionOnSet(g, S)
  BY <1>1, <1>3, SumPlus
<1>7. SumFunctionOnSet(t, S) = SumFunctionOnSet(k, S) + SumFunctionOnSet(c, S)
  BY <1>1, <1>3, SumPlus
<1>8. /\ SumFunctionOnSet(t, S) \in Int /\ SumFunctionOnSet(c, S) \in Int
      /\ SumFunctionOnSet(k, S) \in Int
  BY <1>1, <1>3, SumInt
<1>9. (\A l \in S : r.returned[l] = r.lines[l].qty) => SumFunctionOnSet(t, S) = SumFunctionOnSet(c, S)
  BY <1>1, <1>3, <1>4, SumAgree
<1>10. (\A l \in DOMAIN r.lines : r.returned[l] = r.lines[l].qty) => (\A l \in S : r.returned[l] = r.lines[l].qty)
  BY DEF S
<1> QED
  BY <1>2, <1>5, <1>6, <1>7, <1>8, <1>9, <1>10

\* A new sale keeps all of its lines.
LEMMA NewSale ==
  ASSUME NEW lines \in SaleLines, NEW r, r.lines = lines, r.returned = [l \in DOMAIN lines |-> 0],
         r.session \in Sessions, r.total = Subtotal(lines) + Tax(lines), r.credited = 0, r.total > 0
  PROVE  /\ SaleIsSound(r) /\ Subtotal(lines) \in Nat /\ Tax(lines) \in Nat
         /\ RevenueKept(r) = Subtotal(lines) /\ TaxKept(r) = Tax(lines)
         /\ \A i : GoodsKept(r, i) = SoldOf(lines, i) /\ SoldOf(lines, i) \in Nat
<1> DEFINE S == DOMAIN lines
           a == [l \in S |-> SubtotalOf(lines[l], lines[l].qty)]
           b == [l \in S |-> lines[l].tax]
           c == [l \in S |-> SubtotalOf(lines[l], r.returned[l]) + TaxOf(lines[l], r.returned[l])]
           f == [l \in S |-> SubtotalOf(lines[l], lines[l].qty) - SubtotalOf(lines[l], r.returned[l])]
           g == [l \in S |-> lines[l].tax - TaxOf(lines[l], r.returned[l])]
           h(i) == [l \in S |-> IF lines[l].item = i THEN lines[l].qty - r.returned[l] ELSE 0]
           e(i) == [l \in S |-> IF lines[l].item = i THEN lines[l].qty ELSE 0]
<1>1. IsFiniteSet(S) /\ \A l \in S : /\ lines[l] \in SaleLineRows /\ r.returned[l] = 0
                                     /\ lines[l].qty \in Nat \ {0} /\ lines[l].tax \in Nat
  BY SaleLinesAre
<1>2. ASSUME NEW l \in S
      PROVE  /\ SubtotalOf(lines[l], 0) = 0 /\ TaxOf(lines[l], 0) = 0
             /\ SubtotalOf(lines[l], lines[l].qty) \in Nat
  BY <1>1, AmountsOf
<1>3. ASSUME NEW l \in S
      PROVE  /\ a[l] \in Nat /\ b[l] \in Nat /\ c[l] = 0 /\ f[l] = a[l] /\ g[l] = b[l]
             /\ a[l] \in Int /\ b[l] \in Int
  BY <1>1, <1>2
<1>4. ASSUME NEW l \in S, NEW i PROVE h(i)[l] = e(i)[l] /\ e(i)[l] \in Nat /\ e(i)[l] \in Int
  BY <1>1
<1>5. /\ Subtotal(lines) = SumFunctionOnSet(a, S) /\ Tax(lines) = SumFunctionOnSet(b, S)
      /\ RevenueKept(r) = SumFunctionOnSet(f, S) /\ TaxKept(r) = SumFunctionOnSet(g, S)
      /\ \A i : GoodsKept(r, i) = SumFunctionOnSet(h(i), S) /\ SoldOf(lines, i) = SumFunctionOnSet(e(i), S)
  BY DEF Subtotal, Tax, RevenueKept, TaxKept, GoodsKept, SoldOf, SumFunction
<1>6. SumFunctionOnSet(c, S) = SumFunction([l \in DOMAIN r.lines |->
        SubtotalOf(r.lines[l], r.returned[l]) + TaxOf(r.lines[l], r.returned[l])])
  BY DEF SumFunction
<1>7. r.returned \in [DOMAIN r.lines -> Nat] /\ \A l \in DOMAIN r.lines : r.returned[l] <= r.lines[l].qty
  BY <1>1
<1> HIDE DEF a, b, c, f, g, h, e, S
<1>8. SumFunctionOnSet(a, S) \in Nat /\ SumFunctionOnSet(b, S) \in Nat
  BY <1>1, <1>3, SumNat
<1>9. SumFunctionOnSet(f, S) = SumFunctionOnSet(a, S) /\ SumFunctionOnSet(g, S) = SumFunctionOnSet(b, S)
  BY <1>1, <1>3, SumAgree
<1>10. \A i : SumFunctionOnSet(h(i), S) = SumFunctionOnSet(e(i), S) /\ SumFunctionOnSet(e(i), S) \in Nat
  BY <1>1, <1>4, SumAgree, SumNat
<1>11. SumFunctionOnSet(c, S) = 0
  <2>1. \A x \in S : c[x] \in Int
    BY <1>3
  <2>2. {} \in SUBSET S /\ \A x \in S \ {} : c[x] = 0
    BY <1>3
  <2> QED
    BY <1>1, <2>1, <2>2, SumWhere, SumEmpty
<1>12. SaleIsSound(r)
  BY <1>5, <1>6, <1>7, <1>8, <1>11 DEF SaleIsSound
<1> QED
  BY <1>5, <1>8, <1>9, <1>10, <1>12

\* A return lowers what the sale keeps by what it refunds and takes back.
LEMMA ReturnedSale ==
  ASSUME NEW x, sale[x].status = "paid", SaleIsSound(sale[x]), NEW q \in Returns(x), NEW r,
         NEW subtotal, subtotal = SumFunction([l \in DOMAIN q |-> RefundSubtotal(x, l, q[l])]),
         NEW tax, tax = SumFunction([l \in DOMAIN q |-> RefundTax(x, l, q[l])]),
         subtotal + tax <= sale[x].total - sale[x].credited,
         r.session = sale[x].session, r.lines = sale[x].lines, r.total = sale[x].total,
         r.credited = sale[x].credited + (subtotal + tax),
         r.returned = [l \in DOMAIN q |-> sale[x].returned[l] + q[l]]
  PROVE  /\ SaleIsSound(r) /\ subtotal \in Int /\ tax \in Int
         /\ RevenueKept(r) = RevenueKept(sale[x]) - subtotal
         /\ TaxKept(r) = TaxKept(sale[x]) - tax
         /\ \A i : LET back == SumFunction([l \in DOMAIN q |-> IF sale[x].lines[l].item = i THEN q[l] ELSE 0])
                   IN back \in Nat /\ GoodsKept(r, i) = GoodsKept(sale[x], i) - back
<1> DEFINE s == sale[x]
           S == DOMAIN s.lines
           u == [l \in S |-> SubtotalOf(s.lines[l], s.returned[l] + q[l]) - SubtotalOf(s.lines[l], s.returned[l])]
           v == [l \in S |-> TaxOf(s.lines[l], s.returned[l] + q[l]) - TaxOf(s.lines[l], s.returned[l])]
           w(i) == [l \in S |-> IF s.lines[l].item = i THEN q[l] ELSE 0]
           f == [l \in S |-> SubtotalOf(s.lines[l], s.lines[l].qty) - SubtotalOf(s.lines[l], s.returned[l])]
           g == [l \in S |-> s.lines[l].tax - TaxOf(s.lines[l], s.returned[l])]
           h(i) == [l \in S |-> IF s.lines[l].item = i THEN s.lines[l].qty - s.returned[l] ELSE 0]
           f2 == [l \in S |-> SubtotalOf(r.lines[l], r.lines[l].qty) - SubtotalOf(r.lines[l], r.returned[l])]
           g2 == [l \in S |-> r.lines[l].tax - TaxOf(r.lines[l], r.returned[l])]
           h3(i) == [l \in S |-> IF r.lines[l].item = i THEN r.lines[l].qty - r.returned[l] ELSE 0]
           c == [l \in S |-> SubtotalOf(s.lines[l], s.returned[l]) + TaxOf(s.lines[l], s.returned[l])]
           c2 == [l \in S |-> SubtotalOf(r.lines[l], r.returned[l]) + TaxOf(r.lines[l], r.returned[l])]
           uv == [l \in S |-> u[l] + v[l]]
<1>1. /\ IsFiniteSet(S) /\ DOMAIN q = S /\ r.lines = s.lines /\ r.lines \in SaleLines
      /\ \A l \in S : q[l] \in Nat /\ q[l] <= s.lines[l].qty - s.returned[l]
  <2>1. s.lines \in SaleLines /\ r.lines = s.lines
    BY DEF SaleIsSound
  <2>2. q \in [S -> 0..TillQty] /\ \A l \in S : q[l] <= s.lines[l].qty - s.returned[l]
    BY DEF Returns
  <2>3. \A k \in 0..TillQty : k \in Nat
    BY TillAssumption
  <2>4. IsFiniteSet(S)
    BY <2>1, SaleLinesAre
  <2> HIDE DEF S
  <2>5. DOMAIN q = S /\ \A l \in S : q[l] \in Nat
    BY <2>2, <2>3
  <2> QED
    BY <2>1, <2>2, <2>4, <2>5
<1>2. ASSUME NEW l \in S
      PROVE  /\ s.lines[l] \in SaleLineRows /\ s.lines[l].qty \in Nat /\ s.lines[l].tax \in Nat
             /\ s.returned[l] \in Nat /\ s.returned[l] + q[l] \in Nat
             /\ s.returned[l] + q[l] <= s.lines[l].qty /\ r.returned[l] = s.returned[l] + q[l]
             /\ r.lines[l] = s.lines[l] /\ q[l] \in Nat
  BY <1>1, SoldLine
<1>3. ASSUME NEW l \in S
      PROVE  /\ SubtotalOf(s.lines[l], s.lines[l].qty) \in Int
             /\ SubtotalOf(s.lines[l], s.returned[l]) \in Int /\ TaxOf(s.lines[l], s.returned[l]) \in Int
             /\ SubtotalOf(s.lines[l], s.returned[l] + q[l]) \in Int
             /\ TaxOf(s.lines[l], s.returned[l] + q[l]) \in Int
  BY <1>2, AmountsOf
<1>4. ASSUME NEW l \in S
      PROVE  /\ u[l] \in Int /\ v[l] \in Int /\ f2[l] \in Int /\ g2[l] \in Int /\ c[l] \in Int
             /\ f[l] = f2[l] + u[l] /\ g[l] = g2[l] + v[l]
             /\ uv[l] = u[l] + v[l] /\ uv[l] \in Int /\ c2[l] = c[l] + uv[l]
  <2>1. f2[l] = SubtotalOf(s.lines[l], s.lines[l].qty) - SubtotalOf(s.lines[l], s.returned[l] + q[l])
    BY <1>2
  <2>2. g2[l] = s.lines[l].tax - TaxOf(s.lines[l], s.returned[l] + q[l])
    BY <1>2
  <2>3. c2[l] = SubtotalOf(s.lines[l], s.returned[l] + q[l]) + TaxOf(s.lines[l], s.returned[l] + q[l])
    BY <1>2
  <2>4. /\ u[l] = SubtotalOf(s.lines[l], s.returned[l] + q[l]) - SubtotalOf(s.lines[l], s.returned[l])
        /\ v[l] = TaxOf(s.lines[l], s.returned[l] + q[l]) - TaxOf(s.lines[l], s.returned[l])
        /\ f[l] = SubtotalOf(s.lines[l], s.lines[l].qty) - SubtotalOf(s.lines[l], s.returned[l])
        /\ g[l] = s.lines[l].tax - TaxOf(s.lines[l], s.returned[l])
        /\ c[l] = SubtotalOf(s.lines[l], s.returned[l]) + TaxOf(s.lines[l], s.returned[l])
        /\ uv[l] = u[l] + v[l]
    OBVIOUS
  <2>5. s.lines[l].tax \in Int
    BY <1>2
  <2> HIDE DEF u, v, f, g, f2, g2, c, c2, uv, s, S
  <2> QED
    BY <1>3, <2>1, <2>2, <2>3, <2>4, <2>5
<1>5. ASSUME NEW l \in S, NEW i
      PROVE  h3(i)[l] \in Int /\ w(i)[l] \in Nat /\ w(i)[l] \in Int /\ h(i)[l] = h3(i)[l] + w(i)[l]
  <2>1. /\ h3(i)[l] = IF s.lines[l].item = i THEN s.lines[l].qty - (s.returned[l] + q[l]) ELSE 0
        /\ h(i)[l] = IF s.lines[l].item = i THEN s.lines[l].qty - s.returned[l] ELSE 0
        /\ w(i)[l] = IF s.lines[l].item = i THEN q[l] ELSE 0
    BY <1>2
  <2>2. s.lines[l].qty \in Nat /\ s.returned[l] \in Nat /\ q[l] \in Nat
    BY <1>2
  <2> HIDE DEF h, h3, w, s, S
  <2> QED
    BY <2>1, <2>2
<1>6. /\ subtotal = SumFunctionOnSet(u, S) /\ tax = SumFunctionOnSet(v, S)
      /\ RevenueKept(s) = SumFunctionOnSet(f, S) /\ RevenueKept(r) = SumFunctionOnSet(f2, S)
      /\ TaxKept(s) = SumFunctionOnSet(g, S) /\ TaxKept(r) = SumFunctionOnSet(g2, S)
  BY <1>1 DEF RevenueKept, TaxKept, RefundSubtotal, RefundTax, SumFunction
<1>7. /\ s.credited = SumFunctionOnSet(c, S)
      /\ SumFunctionOnSet(c2, S) = SumFunction([l \in DOMAIN r.lines |->
           SubtotalOf(r.lines[l], r.returned[l]) + TaxOf(r.lines[l], r.returned[l])])
  BY <1>1 DEF SumFunction, SaleIsSound
<1>8. \A i : /\ GoodsKept(s, i) = SumFunctionOnSet(h(i), S) /\ GoodsKept(r, i) = SumFunctionOnSet(h3(i), S)
             /\ SumFunction([l \in DOMAIN q |-> IF s.lines[l].item = i THEN q[l] ELSE 0]) = SumFunctionOnSet(w(i), S)
  BY <1>1 DEF GoodsKept, SumFunction
<1>9. /\ r.returned \in [DOMAIN r.lines -> Nat]
      /\ \A l \in DOMAIN r.lines : r.returned[l] <= r.lines[l].qty
  BY <1>1, <1>2
<1>10. s.total \in Int /\ s.credited \in Int /\ s.session \in Sessions /\ s.total = Subtotal(s.lines) + Tax(s.lines)
  BY PaidIsKept DEF SaleIsSound
<1> HIDE DEF u, v, w, f, g, h, f2, g2, h3, c, c2, uv, S
<1>11. /\ SumFunctionOnSet(u, S) \in Int /\ SumFunctionOnSet(v, S) \in Int
       /\ SumFunctionOnSet(f2, S) \in Int /\ SumFunctionOnSet(g2, S) \in Int
  BY <1>1, <1>4, SumInt
<1>12. SumFunctionOnSet(f, S) = SumFunctionOnSet(f2, S) + SumFunctionOnSet(u, S)
  BY <1>1, <1>4, SumPlus
<1>13. SumFunctionOnSet(g, S) = SumFunctionOnSet(g2, S) + SumFunctionOnSet(v, S)
  BY <1>1, <1>4, SumPlus
<1>14. SumFunctionOnSet(uv, S) = SumFunctionOnSet(u, S) + SumFunctionOnSet(v, S)
  BY <1>1, <1>4, SumPlus
<1>15. SumFunctionOnSet(c2, S) = SumFunctionOnSet(c, S) + SumFunctionOnSet(uv, S)
  BY <1>1, <1>4, SumPlus
<1>16. ASSUME NEW i
       PROVE  /\ SumFunctionOnSet(w(i), S) \in Nat /\ SumFunctionOnSet(h3(i), S) \in Int
              /\ SumFunctionOnSet(h(i), S) = SumFunctionOnSet(h3(i), S) + SumFunctionOnSet(w(i), S)
  <2>1. \A l \in S : h3(i)[l] \in Int /\ w(i)[l] \in Nat /\ w(i)[l] \in Int /\ h(i)[l] = h3(i)[l] + w(i)[l]
    BY <1>5
  <2>2. SumFunctionOnSet(w(i), S) \in Nat
    BY <1>1, <2>1, SumNat
  <2>3. SumFunctionOnSet(h3(i), S) \in Int
    BY <1>1, <2>1, SumInt
  <2>4. SumFunctionOnSet(h(i), S) = SumFunctionOnSet(h3(i), S) + SumFunctionOnSet(w(i), S)
    BY <1>1, <2>1, SumPlus
  <2> QED
    BY <2>2, <2>3, <2>4
<1>17. r.credited = SumFunctionOnSet(c2, S) /\ r.credited <= r.total
  BY <1>6, <1>7, <1>10, <1>11, <1>14, <1>15
<1>18. SaleIsSound(r)
  BY <1>1, <1>7, <1>9, <1>10, <1>17 DEF SaleIsSound
<1>19. RevenueKept(r) = RevenueKept(s) - subtotal /\ TaxKept(r) = TaxKept(s) - tax
  BY <1>6, <1>11, <1>12, <1>13
<1>20. \A i : LET back == SumFunction([l \in DOMAIN q |-> IF s.lines[l].item = i THEN q[l] ELSE 0])
              IN back \in Nat /\ GoodsKept(r, i) = GoodsKept(s, i) - back
  <2> TAKE i
  <2> DEFINE back == SumFunction([l \in DOMAIN q |-> IF s.lines[l].item = i THEN q[l] ELSE 0])
  <2>1. back = SumFunctionOnSet(w(i), S)
    BY <1>8
  <2> HIDE DEF back
  <2>2. back \in Nat /\ GoodsKept(r, i) = GoodsKept(s, i) - back
    BY <1>8, <1>16, <2>1
  <2> QED
    BY <2>2 DEF back
<1> QED
  BY <1>6, <1>11, <1>18, <1>19, <1>20

-----------------------------------------------------------------------------
(* Steps.                                                                  *)

\* A sum over one element more.
LEMMA SumGains ==
  ASSUME NEW S, IsFiniteSet(S), NEW e, e \notin S, NEW f, NEW g,
         \A x \in S : f[x] \in Int /\ g[x] = f[x], g[e] \in Int
  PROVE  /\ SumFunctionOnSet(f, S) \in Int
         /\ SumFunctionOnSet(g, S \cup {e}) = SumFunctionOnSet(f, S) + g[e]
<1>1. SumFunctionOnSet(g, S \cup {e}) = g[e] + SumFunctionOnSet(g, S)
  BY SumAdd
<1>2. SumFunctionOnSet(g, S) = SumFunctionOnSet(f, S)
  BY SumAgree
<1>3. SumFunctionOnSet(f, S) \in Int
  BY SumInt
<1> QED
  BY <1>1, <1>2, <1>3

\* What the invariant says of the types.
LEMMA TillTyped ==
  ASSUME TillInv
  PROVE  /\ DOMAIN session = Sessions /\ DOMAIN sale = Sales
         /\ \A s \in Sessions : /\ session[s].status \in {"none", "open", "closed"}
                                /\ session[s].float \in Int /\ session[s].expected \in Int
         /\ sale \in [Sales -> SaleRows] /\ IsFiniteSet(Sold) /\ Sold \subseteq Sales
         /\ books.cash \in Int /\ books.revenue \in Int /\ books.tax \in Int /\ drawer \in Int
<1>1. IsFiniteSet(Sold) /\ Sold \subseteq Sales
  BY FS_Subset, TillAssumption DEF Sold
<1>2. TillShapes
  BY DEF TillInv
<1>3. sale \in [Sales -> SaleRows] /\ drawer \in Int /\ DOMAIN sale = Sales
  BY <1>2 DEF TillShapes, SaleRows
<1>4. books.cash \in Int /\ books.revenue \in Int /\ books.tax \in Int
  BY <1>2 DEF TillShapes
<1>5. /\ DOMAIN session = Sessions
      /\ \A s \in Sessions : /\ session[s].status \in {"none", "open", "closed"}
                             /\ session[s].float \in Int /\ session[s].expected \in Int
  BY <1>2 DEF TillShapes
<1> QED
  BY <1>1, <1>3, <1>4, <1>5

\* Nothing is sold yet, and nothing is missing.
LEMMA TillInvInit == TillInit => TillInv
<1> SUFFICES ASSUME TillInit PROVE TillInv
  OBVIOUS
<1>1. Sold = {}
  BY DEF TillInit, Sold, NoSale
<1>2. TillShapes
  <2>1. sale \in [Sales -> SaleRows]
    <3>1. <<>> \in [1..0 -> Nat] /\ 0 \in 0..TillLines
      BY TillAssumption
    <3>2. <<>> \in UNION {[1..n -> Nat] : n \in 0..TillLines}
      BY <3>1
    <3> QED
      BY <3>2 DEF TillInit, NoSale, SaleRows
  <2>2. /\ session \in [Sessions -> [status : {"none", "open", "closed"}, float : Int, expected : Int,
                                    counted : Int, variance : Int]]
        /\ stock \in [Goods -> Int] /\ reserved \in [Goods -> Int]
        /\ books \in [cash : Int, revenue : Int, tax : Int] /\ drawer \in Int
    BY TillAssumption DEF TillInit, NoSession
  <2> QED
    BY <2>1, <2>2 DEF TillShapes, SaleRows
<1>4. AccountsAddUp
  <2>1. /\ SumFunction([x \in Sold |-> RevenueKept(sale[x])]) = 0
        /\ SumFunction([x \in Sold |-> TaxKept(sale[x])]) = 0
    BY <1>1, SumEmpty DEF SumFunction
  <2> QED
    BY <2>1 DEF AccountsAddUp, TillInit
<1>5. StockFollowsSales
  <2>1. {y \in Sold : sale[y].stocked} = {}
    BY <1>1
  <2>2. \A i : SumFunction([x \in {y \in Sold : sale[y].stocked} |-> GoodsKept(sale[x], i)]) = 0
    BY <2>1, SumEmpty DEF SumFunction
  <2>3. \A i \in Goods : stock[i] = TillStock /\ reserved[i] = 0 /\ TillStock \in Nat
    BY TillAssumption DEF TillInit
  <2>4. \A i \in Goods : stock[i] = TillStock - 0 /\ reserved[i] <= stock[i]
    BY <2>3
  <2> QED
    BY <2>2, <2>4 DEF StockFollowsSales
<1>6. OneShift /\ DrawerIsExpected
  BY <1>1 DEF OneShift, DrawerIsExpected, TillInit, NoSession
<1> QED
  BY <1>1, <1>2, <1>4, <1>5, <1>6 DEF TillInv

\* What does not touch the sales leaves what follows from them.
LEMMA SalesKept ==
  ASSUME TillInv, UNCHANGED <<sale, stock, books>>, TillShapes', \A i \in Goods : reserved'[i] <= stock'[i]
  PROVE  (\A x \in Sold : SaleIsSound(sale[x]))' /\ AccountsAddUp' /\ StockFollowsSales'
<1>1. Sold' = Sold
  BY DEF Sold
<1>2. (\A x \in Sold : SaleIsSound(sale[x]))'
  BY <1>1 DEF TillInv
<1>3. AccountsAddUp'
  BY <1>1 DEF TillInv, AccountsAddUp
<1>4. StockFollowsSales'
  BY <1>1 DEF TillInv, StockFollowsSales
<1> QED
  BY <1>2, <1>3, <1>4

\* A shift opens with its float in the drawer.
LEMMA OpenStep ==
  ASSUME TillInv, NEW s \in Sessions, NEW f \in Floats, OpenSession(s, f)
  PROVE  TillInv'
<1>1. f \in Int
  BY TillAssumption
<1>2. /\ session' = [session EXCEPT ![s] = [NoSession EXCEPT !.status = "open", !.float = f]]
      /\ drawer' = f /\ UNCHANGED <<sale, stock, reserved, books>>
      /\ session[s].status = "none" /\ \A x \in Sessions : session[x].status # "open"
  BY DEF OpenSession
<1>3. /\ session'[s].status = "open" /\ session'[s].float = f /\ session'[s].expected = 0
      /\ \A t \in Sessions \ {s} : session'[t] = session[t]
  BY <1>2, TillTyped DEF NoSession
<1>4. TillShapes'
  <2> DEFINE Rows == [status : {"none", "open", "closed"}, float : Int, expected : Int,
                     counted : Int, variance : Int]
             row == [NoSession EXCEPT !.status = "open", !.float = f]
  <2>1. row \in Rows
    <3>1. NoSession \in Rows
      BY DEF NoSession
    <3>2. \A x \in Rows : [x EXCEPT !.status = "open", !.float = f] \in Rows
      BY <1>1
    <3> QED
      BY <3>1, <3>2
  <2>2. session \in [Sessions -> Rows] /\ session' = [session EXCEPT ![s] = row]
    BY <1>2 DEF TillInv, TillShapes
  <2> HIDE DEF row
  <2>3. session' \in [Sessions -> Rows]
    BY <2>1, <2>2
  <2> QED
    BY <1>1, <1>2, <2>3 DEF TillInv, TillShapes
<1>5. (\A x \in Sold : SaleIsSound(sale[x]))' /\ AccountsAddUp' /\ StockFollowsSales'
  BY <1>2, <1>4, SalesKept DEF TillInv, StockFollowsSales
<1>6. OneShift'
  <2>1. Sold' = Sold
    BY <1>2 DEF Sold
  <2>2. \A x \in Sold : sale[x].session \in Sessions /\ session[sale[x].session].status # "none"
    BY DEF TillInv, OneShift, SaleIsSound
  <2> QED
    BY <1>2, <1>3, <2>1, <2>2 DEF OneShift
<1>7. DrawerIsExpected'
  BY <1>1, <1>2, <1>3 DEF DrawerIsExpected
<1> QED
  BY <1>4, <1>5, <1>6, <1>7 DEF TillInv

\* After the first shift nothing is promised of the drawer.
LEMMA CloseStep ==
  ASSUME TillInv, NEW s \in Sessions, NEW c \in Floats, CloseSession(s, c)
  PROVE  TillInv'
<1>1. c \in Int /\ session[s].float \in Int /\ session[s].expected \in Int
  BY TillAssumption, TillTyped
<1>2. /\ session' = [session EXCEPT ![s] =
           [status |-> "closed", float |-> session[s].float, expected |-> session[s].float + session[s].expected,
            counted |-> c, variance |-> c - (session[s].float + session[s].expected)]]
      /\ drawer' = 0 /\ UNCHANGED <<sale, stock, reserved, books>>
  BY TillTyped DEF CloseSession
<1>3. session'[s].status = "closed" /\ \A t \in Sessions \ {s} : session'[t] = session[t]
  BY <1>2, TillTyped
<1>4. TillShapes'
  BY <1>1, <1>2 DEF TillInv, TillShapes
<1>5. (\A x \in Sold : SaleIsSound(sale[x]))' /\ AccountsAddUp' /\ StockFollowsSales'
  BY <1>2, <1>4, SalesKept DEF TillInv, StockFollowsSales
<1>6. OneShift'
  <2>1. Sold' = Sold
    BY <1>2 DEF Sold
  <2>2. \A x \in Sold : sale[x].session \in Sessions /\ session[sale[x].session].status # "none"
    BY DEF TillInv, OneShift, SaleIsSound
  <2>3. \A t, u \in Sessions : session'[t].status = "open" /\ session'[u].status = "open" => t = u
    BY <1>3 DEF TillInv, OneShift
  <2> QED
    BY <1>2, <1>3, <2>1, <2>2, <2>3 DEF OneShift
<1>7. DrawerIsExpected'
  BY <1>3 DEF DrawerIsExpected
<1> QED
  BY <1>4, <1>5, <1>6, <1>7 DEF TillInv

\* A reservation takes what is available.
LEMMA ReserveStep ==
  ASSUME TillInv, NEW i \in Goods, Reserve(i)
  PROVE  TillInv'
<1>1. UNCHANGED <<session, sale, stock, books, drawer>> /\ reserved[i] < stock[i]
      /\ reserved' = [reserved EXCEPT ![i] = @ + 1]
  BY DEF Reserve
<1>2. TillShapes'
  BY <1>1 DEF TillInv, TillShapes
<1>3. \A j \in Goods : reserved'[j] <= stock'[j]
  <2>1. /\ stock \in [Goods -> Int] /\ reserved \in [Goods -> Int]
        /\ \A j \in Goods : reserved[j] <= stock[j]
    BY DEF TillInv, TillShapes, StockFollowsSales
  <2>2. reserved'[i] <= stock'[i]
    BY <1>1, <2>1
  <2>3. \A j \in Goods \ {i} : reserved'[j] = reserved[j]
    BY <1>1, <2>1
  <2> QED
    BY <1>1, <2>1, <2>2, <2>3
<1>4. (\A x \in Sold : SaleIsSound(sale[x]))' /\ AccountsAddUp' /\ StockFollowsSales'
  BY <1>1, <1>2, <1>3, SalesKept
<1>5. OneShift' /\ DrawerIsExpected'
  BY <1>1 DEF TillInv, OneShift, DrawerIsExpected, Sold
<1> QED
  BY <1>2, <1>4, <1>5 DEF TillInv

\* A sale adds its amounts and takes its goods.
LEMMA CompleteStep ==
  ASSUME TillInv, NEW x \in Sales, NEW s \in Sessions, CompleteSale(x, s)
  PROVE  TillInv'
<1>0. PICK lines \in SaleLines, stocked \in BOOLEAN :
        \E cash \in CashAllocations(Subtotal(lines) + Tax(lines)) :
           /\ Subtotal(lines) + Tax(lines) > 0
           /\ stocked => Available(lines)
           /\ sale' = [sale EXCEPT ![x] =
                [status |-> "paid", session |-> s, lines |-> lines, stocked |-> stocked,
                 total |-> Subtotal(lines) + Tax(lines), credited |-> 0, returned |-> [l \in DOMAIN lines |-> 0]]]
           /\ stock' = IF stocked THEN [i \in Goods |-> stock[i] - SoldOf(lines, i)] ELSE stock
           /\ books' = [cash |-> books.cash + (Subtotal(lines) + Tax(lines)),
                        revenue |-> books.revenue + Subtotal(lines), tax |-> books.tax + Tax(lines)]
           /\ session' = [session EXCEPT ![s].expected = @ + cash]
           /\ drawer' = drawer + cash
           /\ UNCHANGED reserved
  BY DEF CompleteSale
<1>1. PICK cash \in CashAllocations(Subtotal(lines) + Tax(lines)) :
        /\ Subtotal(lines) + Tax(lines) > 0
        /\ stocked => Available(lines)
        /\ sale' = [sale EXCEPT ![x] =
             [status |-> "paid", session |-> s, lines |-> lines, stocked |-> stocked,
              total |-> Subtotal(lines) + Tax(lines), credited |-> 0, returned |-> [l \in DOMAIN lines |-> 0]]]
        /\ stock' = IF stocked THEN [i \in Goods |-> stock[i] - SoldOf(lines, i)] ELSE stock
        /\ books' = [cash |-> books.cash + (Subtotal(lines) + Tax(lines)),
                     revenue |-> books.revenue + Subtotal(lines), tax |-> books.tax + Tax(lines)]
        /\ session' = [session EXCEPT ![s].expected = @ + cash]
        /\ drawer' = drawer + cash
        /\ UNCHANGED reserved
  BY <1>0
<1> DEFINE row == [status |-> "paid", session |-> s, lines |-> lines, stocked |-> stocked,
                   total |-> Subtotal(lines) + Tax(lines), credited |-> 0, returned |-> [l \in DOMAIN lines |-> 0]]
<1>2. sale[x].status = "none" /\ session[s].status = "open" /\ cash \in Int
  BY DEF CompleteSale, CashAllocations
<1>3. /\ sale' = [sale EXCEPT ![x] = row] /\ row.status = "paid" /\ row.session = s /\ row.lines = lines
      /\ row.stocked = stocked /\ row.total = Subtotal(lines) + Tax(lines) /\ row.credited = 0
      /\ row.returned = [l \in DOMAIN lines |-> 0]
  BY <1>1
<1>4. row \in SaleRows
  <2>1. /\ SaleIsSound(row) /\ Subtotal(lines) \in Nat /\ Tax(lines) \in Nat
    BY <1>1, <1>3, NewSale
  <2>2. PICK n \in 1..TillLines : DOMAIN lines = 1..n
    BY SaleLinesAre
  <2>3. row.returned \in [1..n -> Nat] /\ n \in 0..TillLines
    BY <2>2, TillAssumption
  <2>4. row.returned \in UNION {[1..m -> Nat] : m \in 0..TillLines}
    BY <2>3
  <2> QED
    BY <2>1, <2>4 DEF SaleRows
<1> HIDE DEF row
<1>5. /\ SaleIsSound(row) /\ Subtotal(lines) \in Nat /\ Tax(lines) \in Nat
      /\ RevenueKept(row) = Subtotal(lines) /\ TaxKept(row) = Tax(lines)
      /\ \A i : GoodsKept(row, i) = SoldOf(lines, i) /\ SoldOf(lines, i) \in Nat
  BY <1>1, <1>3, NewSale
<1>6. /\ sale' \in [Sales -> SaleRows] /\ sale'[x] = row /\ \A y \in Sales \ {x} : sale'[y] = sale[y]
      /\ x \notin Sold /\ Sold' = Sold \cup {x} /\ \A y \in Sold : y # x /\ sale'[y] = sale[y]
  <2>1. sale' \in [Sales -> SaleRows] /\ sale'[x] = row /\ \A y \in Sales \ {x} : sale'[y] = sale[y]
    BY <1>3, <1>4, TillTyped
  <2> QED
    BY <1>2, <1>3, <2>1 DEF Sold
<1>7. \A y \in Sold' : SaleIsSound(sale'[y])
  BY <1>5, <1>6 DEF TillInv
<1>8. /\ session' \in [Sessions -> [status : {"none", "open", "closed"}, float : Int, expected : Int,
                                  counted : Int, variance : Int]]
      /\ session'[s].expected = session[s].expected + cash /\ session'[s].float = session[s].float
      /\ \A t \in Sessions : session'[t].status = session[t].status
  <2> DEFINE Rows == [status : {"none", "open", "closed"}, float : Int, expected : Int,
                     counted : Int, variance : Int]
  <2>1. session \in [Sessions -> Rows] /\ session' = [session EXCEPT ![s].expected = session[s].expected + cash]
    BY <1>1 DEF TillInv, TillShapes
  <2>2. \A y \in Rows : [y EXCEPT !.expected = y.expected + cash] \in Rows
    BY <1>2
  <2>3. session'[s] = [session[s] EXCEPT !.expected = session[s].expected + cash]
        /\ \A t \in Sessions \ {s} : session'[t] = session[t]
    BY <2>1
  <2>4. session' \in [Sessions -> Rows]
    BY <2>1, <2>2, <2>3
  <2> QED
    BY <2>1, <2>3, <2>4
<1>9. /\ stock' \in [Goods -> Int]
      /\ \A i \in Goods : stock'[i] = stock[i] - (IF stocked THEN SoldOf(lines, i) ELSE 0)
  <2>1. stock \in [Goods -> Int] /\ \A i \in Goods : SoldOf(lines, i) \in Int
    BY <1>5 DEF TillInv, TillShapes
  <2>2. CASE stocked
    <3>1. stock' = [i \in Goods |-> stock[i] - SoldOf(lines, i)]
      BY <1>1, <2>2
    <3> QED
      BY <2>1, <2>2, <3>1
  <2>3. CASE ~stocked
    <3>1. stock' = stock
      BY <1>1, <2>3
    <3> QED
      BY <2>1, <2>3, <3>1
  <2> QED
    BY <2>2, <2>3
<1>10. TillShapes'
  <2>1. books' \in [cash : Int, revenue : Int, tax : Int] /\ drawer' \in Int
    BY <1>1, <1>2, <1>5, TillTyped
  <2>2. reserved' \in [Goods -> Int]
    BY <1>1 DEF TillInv, TillShapes
  <2> QED
    BY <1>6, <1>8, <1>9, <2>1, <2>2 DEF TillShapes, SaleRows
<1>11. AccountsAddUp'
  <2> DEFINE f == [y \in Sold |-> RevenueKept(sale[y])]
             g == [y \in Sold |-> TaxKept(sale[y])]
             f2 == [y \in Sold \cup {x} |-> RevenueKept(sale'[y])]
             g2 == [y \in Sold \cup {x} |-> TaxKept(sale'[y])]
  <2>1. ASSUME NEW y \in Sold PROVE f[y] \in Int /\ f2[y] = f[y] /\ g[y] \in Int /\ g2[y] = g[y]
    BY <1>6, KeptNat DEF TillInv
  <2>2. f2[x] = Subtotal(lines) /\ g2[x] = Tax(lines)
    BY <1>5, <1>6
  <2>3. /\ books.revenue = SumFunctionOnSet(f, Sold) /\ books.tax = SumFunctionOnSet(g, Sold)
        /\ books.cash = books.revenue + books.tax
    BY DEF TillInv, AccountsAddUp, SumFunction
  <2>4. /\ SumFunction([y \in Sold |-> RevenueKept(sale[y])])' = SumFunctionOnSet(f2, Sold \cup {x})
        /\ SumFunction([y \in Sold |-> TaxKept(sale[y])])' = SumFunctionOnSet(g2, Sold \cup {x})
    BY <1>6 DEF SumFunction
  <2> HIDE DEF f, g, f2, g2
  <2>5. SumFunctionOnSet(f2, Sold \cup {x}) = SumFunctionOnSet(f, Sold) + Subtotal(lines)
    BY <1>5, <1>6, <2>1, <2>2, SumGains, TillTyped
  <2>6. SumFunctionOnSet(g2, Sold \cup {x}) = SumFunctionOnSet(g, Sold) + Tax(lines)
    BY <1>5, <1>6, <2>1, <2>2, SumGains, TillTyped
  <2>7. /\ books'.cash = books.cash + (Subtotal(lines) + Tax(lines))
        /\ books'.revenue = books.revenue + Subtotal(lines) /\ books'.tax = books.tax + Tax(lines)
    BY <1>1
  <2> QED
    BY <1>5, <2>3, <2>4, <2>5, <2>6, <2>7, TillTyped DEF AccountsAddUp
<1>12. StockFollowsSales'
  <2> DEFINE G(i) == [y \in {z \in Sold : sale[z].stocked} |-> GoodsKept(sale[y], i)]
             G2(i) == [y \in {z \in Sold' : sale'[z].stocked} |-> GoodsKept(sale'[y], i)]
             T == {z \in Sold : sale[z].stocked}
  <2>1. T \subseteq Sold /\ IsFiniteSet(T) /\ x \notin T
    BY <1>6, FS_Subset, TillTyped
  <2>2. {z \in Sold' : sale'[z].stocked} = IF stocked THEN T \cup {x} ELSE T
    BY <1>3, <1>6
  <2>3. ASSUME NEW i, NEW y \in T PROVE G(i)[y] \in Int /\ G2(i)[y] = G(i)[y]
    BY <1>6, KeptNat DEF TillInv
  <2>4. ASSUME NEW i, stocked PROVE G2(i)[x] = SoldOf(lines, i)
    BY <1>3, <1>5, <1>6, <2>4
  <2>5. \A i \in Goods : stock[i] = TillStock - SumFunctionOnSet(G(i), T) /\ reserved[i] <= stock[i]
    BY DEF TillInv, StockFollowsSales, SumFunction
  <2>6. \A i : SumFunction([y \in {z \in Sold : sale[z].stocked} |-> GoodsKept(sale[y], i)])'
                 = SumFunctionOnSet(G2(i), IF stocked THEN T \cup {x} ELSE T)
    BY <2>2 DEF SumFunction
  <2> HIDE DEF G, G2, T
  <2>7. ASSUME NEW i \in Goods
        PROVE  stock'[i] = TillStock - SumFunctionOnSet(G2(i), IF stocked THEN T \cup {x} ELSE T)
    <3>1. \A y \in T : G(i)[y] \in Int /\ G2(i)[y] = G(i)[y]
      BY <2>3
    <3>2. SumFunctionOnSet(G(i), T) \in Int
      BY <2>1, <3>1, SumInt
    <3>3. CASE stocked
      <4>1. G2(i)[x] = SoldOf(lines, i) /\ SoldOf(lines, i) \in Int
        BY <1>5, <2>4, <3>3
      <4>2. SumFunctionOnSet(G2(i), T \cup {x}) = SumFunctionOnSet(G(i), T) + SoldOf(lines, i)
        BY <2>1, <3>1, <4>1, SumGains
      <4>3. stock'[i] = stock[i] - SoldOf(lines, i) /\ stock[i] = TillStock - SumFunctionOnSet(G(i), T)
        BY <1>9, <2>5, <3>3
      <4> QED
        BY <3>2, <3>3, <4>1, <4>2, <4>3, TillAssumption
    <3>4. CASE ~stocked
      <4>1. SumFunctionOnSet(G2(i), T) = SumFunctionOnSet(G(i), T)
        BY <2>1, <3>1, SumAgree
      <4>2. stock'[i] = stock[i] - 0 /\ stock[i] = TillStock - SumFunctionOnSet(G(i), T)
        BY <1>9, <2>5, <3>4
      <4> QED
        BY <3>2, <3>4, <4>1, <4>2, TillAssumption
    <3> QED
      BY <3>3, <3>4
  <2>8. ASSUME NEW i \in Goods PROVE reserved'[i] <= stock'[i]
    <3>1. stock[i] \in Int /\ reserved[i] \in Int /\ reserved'[i] = reserved[i] /\ SoldOf(lines, i) \in Nat
      BY <1>1, <1>5 DEF TillInv, TillShapes
    <3>2. CASE stocked
      BY <1>1, <1>9, <3>1, <3>2 DEF Available
    <3>3. CASE ~stocked
      BY <1>9, <2>5, <3>1, <3>3
    <3> QED
      BY <3>2, <3>3
  <2> QED
    BY <2>6, <2>7, <2>8 DEF StockFollowsSales
<1>13. OneShift'
  <2>1. \A y \in Sold : sale[y].session \in Sessions /\ session[sale[y].session].status # "none"
    BY DEF TillInv, OneShift, SaleIsSound
  <2>2. session[s].status # "none"
    BY <1>2
  <2>3. \A y \in Sold' : sale'[y].session \in Sessions /\ session[sale'[y].session].status # "none"
    BY <1>3, <1>6, <2>1, <2>2
  <2>4. \A t, u \in Sessions : session'[t].status = "open" /\ session'[u].status = "open" => t = u
    BY <1>8 DEF TillInv, OneShift
  <2> QED
    BY <1>8, <2>3, <2>4 DEF OneShift
<1>14. DrawerIsExpected'
  <2>1. ASSUME NEW t \in Sessions, session'[t].status = "open", \A u \in Sessions : session'[u].status # "closed"
        PROVE  drawer' = session'[t].float + session'[t].expected
    <3>1. t = s
      BY <1>2, <1>8, <2>1 DEF TillInv, OneShift
    <3>2. drawer = session[s].float + session[s].expected
      BY <1>2, <1>8, <2>1 DEF TillInv, DrawerIsExpected
    <3> QED
      BY <1>1, <1>2, <1>8, <3>1, <3>2, TillTyped
  <2> QED
    BY <2>1 DEF DrawerIsExpected
<1> QED
  BY <1>7, <1>10, <1>11, <1>12, <1>13, <1>14 DEF TillInv

\* A return takes its refunds off the accounts and puts its goods back.
LEMMA ReturnStep ==
  ASSUME TillInv, NEW x \in Sales, NEW m \in {"cash", "card"}, NEW q \in Returns(x), ReturnSale(x, q, m)
  PROVE  TillInv'
<1> DEFINE subtotal == SumFunction([l \in DOMAIN q |-> RefundSubtotal(x, l, q[l])])
           tax == SumFunction([l \in DOMAIN q |-> RefundTax(x, l, q[l])])
           refund == subtotal + tax
           row == [sale[x] EXCEPT !.credited = sale[x].credited + refund,
                                  !.returned = [l \in DOMAIN q |-> sale[x].returned[l] + q[l]]]
           back(i) == SumFunction([l \in DOMAIN q |-> IF sale[x].lines[l].item = i THEN q[l] ELSE 0])
           t == sale[x].session
<1>1. /\ sale[x].status = "paid" /\ refund <= sale[x].total - sale[x].credited
      /\ books' = [cash |-> books.cash - (subtotal + tax), revenue |-> books.revenue - subtotal,
                   tax |-> books.tax - tax]
      /\ sale' = [sale EXCEPT ![x].credited = @ + refund,
                              ![x].returned = [l \in DOMAIN q |-> @[l] + q[l]]]
      /\ stock' = Restocked(x, q)
      /\ session' = (IF m = "cash" THEN DrawerRefund(x, refund) ELSE session)
      /\ drawer' = (IF m = "cash" THEN drawer - refund ELSE drawer)
      /\ UNCHANGED reserved
  BY DEF ReturnSale, RefundEntry
<1>2. x \in Sold /\ SaleIsSound(sale[x]) /\ sale[x] \in SaleRows /\ t \in Sessions
  BY <1>1, TillTyped DEF Sold, TillInv, SaleIsSound
<1>3. sale' = [sale EXCEPT ![x] = row]
  BY <1>1, <1>2, TillTyped DEF SaleRows
<1>4. /\ row.status = "paid" /\ row.session = t /\ row.lines = sale[x].lines
      /\ row.stocked = sale[x].stocked /\ row.total = sale[x].total
      /\ row.credited = sale[x].credited + (subtotal + tax)
      /\ row.returned = [l \in DOMAIN q |-> sale[x].returned[l] + q[l]]
  BY <1>1, <1>2 DEF SaleRows
<1> HIDE DEF row, subtotal, tax
<1>5. /\ SaleIsSound(row) /\ subtotal \in Int /\ tax \in Int
      /\ RevenueKept(row) = RevenueKept(sale[x]) - subtotal
      /\ TaxKept(row) = TaxKept(sale[x]) - tax
  BY <1>1, <1>2, <1>4, ReturnedSale DEF subtotal, tax
<1>6. \A i : back(i) \in Nat /\ GoodsKept(row, i) = GoodsKept(sale[x], i) - back(i)
  BY <1>1, <1>2, <1>4, ReturnedSale DEF subtotal, tax
<1> HIDE DEF back
<1>7. row \in SaleRows
  <2>1. PICK n \in 1..TillLines : DOMAIN row.lines = 1..n
    BY <1>5, SaleLinesAre DEF SaleIsSound
  <2>2. row.returned \in [1..n -> Nat] /\ n \in 0..TillLines
    BY <1>5, <2>1, TillAssumption DEF SaleIsSound
  <2>3. row.returned \in UNION {[1..k -> Nat] : k \in 0..TillLines}
    BY <2>2
  <2>4. sale[x].credited + refund \in Int
    BY <1>2, <1>5, PaidIsKept
  <2>5. \A c \in Int : \A b \in UNION {[1..k -> Nat] : k \in 0..TillLines} :
          [sale[x] EXCEPT !.credited = c, !.returned = b] \in SaleRows
    BY <1>2 DEF SaleRows
  <2>6. row = [sale[x] EXCEPT !.credited = sale[x].credited + refund, !.returned = row.returned]
    BY <1>4 DEF row
  <2> QED
    BY <2>3, <2>4, <2>5, <2>6
<1>8. /\ sale' \in [Sales -> SaleRows] /\ sale'[x] = row /\ \A y \in Sales \ {x} : sale'[y] = sale[y]
      /\ Sold' = Sold
  <2>1. sale' \in [Sales -> SaleRows] /\ sale'[x] = row /\ \A y \in Sales \ {x} : sale'[y] = sale[y]
    BY <1>3, <1>7, TillTyped
  <2> QED
    BY <1>1, <1>4, <2>1 DEF Sold
<1>9. \A y \in Sold' : SaleIsSound(sale'[y])
  BY <1>5, <1>8, TillTyped DEF TillInv
<1>10. /\ session' \in [Sessions -> [status : {"none", "open", "closed"}, float : Int, expected : Int,
                                   counted : Int, variance : Int]]
       /\ \A u \in Sessions : /\ session'[u].status = session[u].status /\ session'[u].float = session[u].float
                              /\ session'[u].expected = session[u].expected
                                   - (IF m = "cash" /\ u = t /\ session[t].status = "open" THEN refund ELSE 0)
  <2> DEFINE Rows == [status : {"none", "open", "closed"}, float : Int, expected : Int,
                     counted : Int, variance : Int]
  <2>1. session \in [Sessions -> Rows] /\ refund \in Int
    BY <1>5 DEF TillInv, TillShapes
  <2>2. CASE m = "cash" /\ session[t].status = "open"
    <3>1. session' = [session EXCEPT ![t].expected = session[t].expected - refund]
      BY <1>1, <2>2 DEF DrawerRefund
    <3>2. \A y \in Rows : [y EXCEPT !.expected = y.expected - refund] \in Rows
      BY <2>1
    <3>3. session'[t] = [session[t] EXCEPT !.expected = session[t].expected - refund]
          /\ \A u \in Sessions \ {t} : session'[u] = session[u]
      BY <1>2, <2>1, <3>1
    <3>4. session' \in [Sessions -> Rows]
      BY <1>2, <2>1, <3>1, <3>2, <3>3
    <3>5. \A u \in Sessions : session[u].expected - 0 = session[u].expected
      BY <2>1
    <3> QED
      BY <1>2, <2>1, <2>2, <3>3, <3>4, <3>5
  <2>3. CASE ~ (m = "cash" /\ session[t].status = "open")
    <3>1. session' = session
      BY <1>1, <2>3 DEF DrawerRefund
    <3>2. \A u \in Sessions : session[u].expected - 0 = session[u].expected
      BY <2>1
    <3> QED
      BY <2>1, <2>3, <3>1, <3>2
  <2> QED
    BY <2>2, <2>3
<1>11. /\ stock' \in [Goods -> Int]
       /\ \A i \in Goods : stock'[i] = stock[i] + (IF sale[x].stocked THEN back(i) ELSE 0)
  <2> DEFINE some(i) == SumFunction([l \in DOMAIN q |->
                          IF sale[x].stocked /\ sale[x].lines[l].item = i THEN q[l] ELSE 0])
  <2>1. stock \in [Goods -> Int] /\ stock' = [i \in Goods |-> stock[i] + some(i)]
    BY <1>1 DEF Restocked, TillInv, TillShapes
  <2>2. ASSUME NEW i PROVE some(i) = IF sale[x].stocked THEN back(i) ELSE 0
    <3>1. CASE sale[x].stocked
      BY <3>1 DEF back
    <3>2. CASE ~sale[x].stocked
      <4> DEFINE none == [l \in DOMAIN q |-> 0]
      <4>1. some(i) = SumFunctionOnSet(none, DOMAIN q)
        BY <3>2 DEF SumFunction
      <4>2. IsFiniteSet(DOMAIN q)
        BY <1>2, SaleLinesAre DEF Returns, SaleIsSound
      <4>3. {} \in SUBSET DOMAIN q /\ \A l \in DOMAIN q : none[l] \in Int /\ none[l] = 0
        OBVIOUS
      <4> HIDE DEF none
      <4>4. SumFunctionOnSet(none, DOMAIN q) = SumFunctionOnSet(none, {})
        BY <4>2, <4>3, SumWhere
      <4> QED
        BY <3>2, <4>1, <4>4, SumEmpty
    <3> QED
      BY <3>1, <3>2
  <2> HIDE DEF some
  <2>3. \A i \in Goods : some(i) \in Int
    BY <1>6, <2>2
  <2> QED
    BY <2>1, <2>2, <2>3
<1>12. TillShapes'
  <2>1. books' \in [cash : Int, revenue : Int, tax : Int] /\ drawer' \in Int
    BY <1>1, <1>5, TillTyped
  <2>2. reserved' \in [Goods -> Int]
    BY <1>1 DEF TillInv, TillShapes
  <2> QED
    BY <1>8, <1>10, <1>11, <2>1, <2>2 DEF TillShapes, SaleRows
<1>13. AccountsAddUp'
  <2> DEFINE f == [y \in Sold |-> RevenueKept(sale[y])]
             g == [y \in Sold |-> TaxKept(sale[y])]
             f2 == [y \in Sold |-> RevenueKept(sale'[y])]
             g2 == [y \in Sold |-> TaxKept(sale'[y])]
  <2>1. ASSUME NEW y \in Sold PROVE f[y] \in Int /\ g[y] \in Int
    BY KeptNat DEF TillInv
  <2>2. ASSUME NEW y \in Sold PROVE y = x \/ (f2[y] = f[y] /\ g2[y] = g[y])
    BY <1>8, TillTyped
  <2>3. f2[x] = f[x] + (-subtotal) /\ g2[x] = g[x] + (-tax)
    <3>1. f[x] = RevenueKept(sale[x]) /\ g[x] = TaxKept(sale[x]) /\ f2[x] = RevenueKept(row) /\ g2[x] = TaxKept(row)
      BY <1>2, <1>8
    <3> QED
      BY <1>2, <1>5, <2>1, <3>1
  <2>4. /\ books.revenue = SumFunctionOnSet(f, Sold) /\ books.tax = SumFunctionOnSet(g, Sold)
        /\ books.cash = books.revenue + books.tax
    BY DEF TillInv, AccountsAddUp, SumFunction
  <2>5. /\ SumFunction([y \in Sold |-> RevenueKept(sale[y])])' = SumFunctionOnSet(f2, Sold)
        /\ SumFunction([y \in Sold |-> TaxKept(sale[y])])' = SumFunctionOnSet(g2, Sold)
    BY <1>8 DEF SumFunction
  <2> HIDE DEF f, g, f2, g2
  <2>6. IsFiniteSet(Sold) /\ -subtotal \in Int /\ -tax \in Int
    BY <1>5, TillTyped
  <2>7. SumFunctionOnSet(f2, Sold) = SumFunctionOnSet(f, Sold) + (-subtotal)
    BY <1>2, <2>1, <2>2, <2>3, <2>6, SumChange
  <2>8. SumFunctionOnSet(g2, Sold) = SumFunctionOnSet(g, Sold) + (-tax)
    BY <1>2, <2>1, <2>2, <2>3, <2>6, SumChange
  <2>9. /\ books'.cash = books.cash - (subtotal + tax)
        /\ books'.revenue = books.revenue - subtotal /\ books'.tax = books.tax - tax
    BY <1>1
  <2> QED
    BY <1>5, <2>4, <2>5, <2>7, <2>8, <2>9, TillTyped DEF AccountsAddUp
<1>14. StockFollowsSales'
  <2> DEFINE T == {z \in Sold : sale[z].stocked}
             G(i) == [y \in T |-> GoodsKept(sale[y], i)]
             G2(i) == [y \in T |-> GoodsKept(sale'[y], i)]
  <2>1. T \subseteq Sold /\ IsFiniteSet(T) /\ (x \in T <=> sale[x].stocked)
    BY <1>2, FS_Subset, TillTyped
  <2>2. {z \in Sold' : sale'[z].stocked} = T
    BY <1>4, <1>8, TillTyped
  <2>3. ASSUME NEW i, NEW y \in T PROVE G(i)[y] \in Int
    BY KeptNat DEF TillInv
  <2>4. ASSUME NEW i, NEW y \in T PROVE y = x \/ G2(i)[y] = G(i)[y]
    BY <1>8, TillTyped
  <2>5. ASSUME NEW i, x \in T PROVE G2(i)[x] = G(i)[x] + (-back(i))
    <3>1. G(i)[x] = GoodsKept(sale[x], i) /\ G2(i)[x] = GoodsKept(row, i)
      BY <1>8, <2>5
    <3>2. GoodsKept(sale[x], i) \in Int /\ back(i) \in Nat /\ GoodsKept(row, i) = GoodsKept(sale[x], i) - back(i)
      BY <1>2, <1>6, KeptNat
    <3> HIDE DEF G, G2
    <3> QED
      BY <3>1, <3>2
  <2>6. \A i \in Goods : stock[i] = TillStock - SumFunctionOnSet(G(i), T) /\ reserved[i] <= stock[i]
    BY DEF TillInv, StockFollowsSales, SumFunction
  <2>7. \A i : SumFunction([y \in {z \in Sold : sale[z].stocked} |-> GoodsKept(sale[y], i)])'
                 = SumFunctionOnSet(G2(i), T)
    BY <2>2 DEF SumFunction
  <2> HIDE DEF G, G2, T
  <2>8. ASSUME NEW i \in Goods
        PROVE  stock'[i] = TillStock - SumFunctionOnSet(G2(i), T) /\ reserved'[i] <= stock'[i]
    <3>1. \A y \in T : G(i)[y] \in Int
      BY <2>3
    <3>2. /\ SumFunctionOnSet(G(i), T) \in Int /\ back(i) \in Nat
          /\ stock[i] = TillStock - SumFunctionOnSet(G(i), T) /\ reserved[i] <= stock[i]
          /\ reserved'[i] = reserved[i] /\ reserved[i] \in Int /\ stock[i] \in Int
      <4>1. SumFunctionOnSet(G(i), T) \in Int
        BY <2>1, <3>1, SumInt
      <4>2. reserved'[i] = reserved[i] /\ reserved[i] \in Int /\ stock[i] \in Int
        BY <1>1 DEF TillInv, TillShapes
      <4> QED
        BY <1>6, <2>6, <4>1, <4>2
    <3>3. CASE sale[x].stocked
      <4>1. \A y \in T : y = x \/ G2(i)[y] = G(i)[y]
        BY <2>4
      <4>2. x \in T /\ G2(i)[x] = G(i)[x] + (-back(i)) /\ -back(i) \in Int
        BY <2>1, <2>5, <3>2, <3>3
      <4>3. SumFunctionOnSet(G2(i), T) = SumFunctionOnSet(G(i), T) + (-back(i))
        BY <2>1, <3>1, <4>1, <4>2, SumChange
      <4>4. stock'[i] = stock[i] + back(i)
        BY <1>11, <3>3
      <4> QED
        BY <3>2, <4>3, <4>4, TillAssumption
    <3>4. CASE ~sale[x].stocked
      <4>1. \A y \in T : G2(i)[y] = G(i)[y]
        BY <2>1, <2>4, <3>4
      <4>2. SumFunctionOnSet(G2(i), T) = SumFunctionOnSet(G(i), T)
        BY <2>1, <3>1, <4>1, SumAgree
      <4>3. stock'[i] = stock[i] + 0
        BY <1>11, <3>4
      <4> QED
        BY <3>2, <4>2, <4>3
    <3> QED
      BY <3>3, <3>4
  <2> QED
    BY <2>7, <2>8 DEF StockFollowsSales
<1>15. OneShift'
  <2>1. \A y \in Sold : sale[y].session \in Sessions /\ session[sale[y].session].status # "none"
    BY DEF TillInv, OneShift, SaleIsSound
  <2>2. \A y \in Sold : sale'[y].session = sale[y].session
    BY <1>4, <1>8, TillTyped
  <2>3. \A v, u \in Sessions : session'[v].status = "open" /\ session'[u].status = "open" => v = u
    BY <1>10 DEF TillInv, OneShift
  <2> QED
    BY <1>8, <1>10, <2>1, <2>2, <2>3 DEF OneShift
<1>16. DrawerIsExpected'
  <2>1. ASSUME NEW u \in Sessions, session'[u].status = "open", \A v \in Sessions : session'[v].status # "closed"
        PROVE  drawer' = session'[u].float + session'[u].expected
    <3>1. session[u].status = "open" /\ \A v \in Sessions : session[v].status # "closed"
      BY <1>10, <2>1
    <3>2. session[t].status # "none" /\ session[t].status \in {"none", "open", "closed"}
      BY <1>2, TillTyped DEF TillInv, OneShift
    <3>3. session[t].status = "open" /\ u = t
      BY <1>2, <3>1, <3>2 DEF TillInv, OneShift
    <3>4. drawer = session[u].float + session[u].expected
      BY <3>1 DEF TillInv, DrawerIsExpected
    <3>5. drawer' = drawer - (IF m = "cash" THEN refund ELSE 0)
      BY <1>1, TillTyped
    <3>6. session'[u].float = session[u].float
          /\ session'[u].expected = session[u].expected - (IF m = "cash" THEN refund ELSE 0)
      BY <1>10, <3>3
    <3> QED
      BY <1>5, <3>4, <3>5, <3>6, TillTyped
  <2> QED
    BY <2>1 DEF DrawerIsExpected
<1> QED
  BY <1>9, <1>12, <1>13, <1>14, <1>15, <1>16 DEF TillInv

\* Every step preserves it.
LEMMA TillInvNext ==
  ASSUME TillInv, [TillNext]_tillVars
  PROVE  TillInv'
<1>1. ASSUME NEW s \in Sessions, NEW f \in Floats, OpenSession(s, f) PROVE TillInv'
  BY <1>1, OpenStep
<1>2. ASSUME NEW s \in Sessions, NEW c \in Floats, CloseSession(s, c) PROVE TillInv'
  BY <1>2, CloseStep
<1>3. ASSUME NEW x \in Sales, NEW s \in Sessions, CompleteSale(x, s) PROVE TillInv'
  BY <1>3, CompleteStep
<1>4. ASSUME NEW x \in Sales, NEW m \in {"cash", "card"}, NEW q \in Returns(x), ReturnSale(x, q, m)
      PROVE  TillInv'
  BY <1>4, ReturnStep
<1>5. ASSUME NEW i \in Goods, Reserve(i) PROVE TillInv'
  BY <1>5, ReserveStep
<1>6. CASE UNCHANGED tillVars
  <2>1. session' = session /\ sale' = sale /\ stock' = stock /\ reserved' = reserved
        /\ books' = books /\ drawer' = drawer /\ Sold' = Sold
    BY <1>6 DEF tillVars, Sold
  <2>2. TillShapes' /\ OneShift' /\ DrawerIsExpected'
    BY <2>1 DEF TillInv, TillShapes, OneShift, DrawerIsExpected
  <2>3. \A i \in Goods : reserved'[i] <= stock'[i]
    BY <2>1 DEF TillInv, StockFollowsSales
  <2> QED
    BY <2>1, <2>2, <2>3, SalesKept DEF TillInv
<1> QED
  BY <1>1, <1>2, <1>3, <1>4, <1>5, <1>6 DEF TillNext

\* What is inductive says what the till promises.
LEMMA TillInvImplies ==
  ASSUME TillInv
  PROVE  TillIsTrue
<1> DEFINE f == [x \in Sold |-> RevenueKept(sale[x])]
           g == [x \in Sold |-> TaxKept(sale[x])]
           k == [x \in Sold |-> sale[x].total - sale[x].credited]
<1>1. RefundsAddUp
  BY PaidIsKept DEF TillInv, SaleIsSound, RefundsAddUp
<1>2. ASSUME NEW x \in Sold
      PROVE  /\ f[x] \in Nat /\ g[x] \in Nat /\ f[x] \in Int /\ g[x] \in Int
             /\ k[x] = f[x] + g[x]
  BY KeptNat, PaidIsKept DEF TillInv
<1>3. /\ books.cash = books.revenue + books.tax
      /\ books.revenue = SumFunctionOnSet(f, Sold) /\ books.tax = SumFunctionOnSet(g, Sold)
      /\ SumFunction([x \in Sold |-> sale[x].total - sale[x].credited]) = SumFunctionOnSet(k, Sold)
  BY DEF TillInv, AccountsAddUp, SumFunction
<1> HIDE DEF f, g, k
<1>4. SumFunctionOnSet(f, Sold) \in Nat /\ SumFunctionOnSet(g, Sold) \in Nat
  BY <1>2, SumNat, TillTyped
<1>5. SumFunctionOnSet(k, Sold) = SumFunctionOnSet(f, Sold) + SumFunctionOnSet(g, Sold)
  BY <1>2, SumPlus, TillTyped
<1>6. BooksMatchSales
  BY <1>3, <1>4, <1>5 DEF BooksMatchSales
<1> QED
  BY <1>1, <1>6 DEF TillInv, TillIsTrue

\* Whatever the shifts, sales, returns and reservations do, refunds add up to what was
\* sold, and the books, the stock and the drawer agree with the sales (completeSale,
\* returnSale, closeSession).
THEOREM TillInvariance == TillSpec => []TillIsTrue
<1>1. TillInit => TillInv
  BY TillInvInit
<1>2. TillInv /\ [TillNext]_tillVars => TillInv'
  BY TillInvNext
<1>3. TillInv => TillIsTrue
  BY TillInvImplies
<1> QED
  BY <1>1, <1>2, <1>3, PTL DEF TillSpec

-----------------------------------------------------------------------------
(* Receivables, for any invoices, two currencies, prices, taxes, exchange  *)
(* rates and amounts.  The accounts, what is paid and what is credited are *)
(* sums over payments and credit notes: a payment, a reversal and a credit *)
(* each move them together.  First the rows of a table, one more or one    *)
(* changed, and the rounding of a share.                                   *)

\* A sum over the rows of a table that gains a row.
LEMMA RowAppended ==
  ASSUME NEW f, NEW g, NEW k \in Nat, DOMAIN f = 1..k, DOMAIN g = 1..(k + 1),
         \A n \in 1..k : f[n] \in Int /\ g[n] = f[n], g[k + 1] \in Int
  PROVE  SumFunction(f) \in Int /\ SumFunction(g) = SumFunction(f) + g[k + 1]
<1>1. IsFiniteSet(1..k)
  BY FS_Interval
<1>2. k + 1 \notin 1..k /\ 1..(k + 1) = (1..k) \cup {k + 1}
  OBVIOUS
<1> DEFINE S == 1..k
           e == k + 1
<1>3. /\ IsFiniteSet(S) /\ e \notin S /\ g[e] \in Int /\ \A x \in S : f[x] \in Int /\ g[x] = f[x]
      /\ SumFunction(f) = SumFunctionOnSet(f, S) /\ SumFunction(g) = SumFunctionOnSet(g, S \cup {e})
  BY <1>1, <1>2 DEF SumFunction
<1> HIDE DEF S, e
<1>4. SumFunctionOnSet(g, S \cup {e}) = SumFunctionOnSet(f, S) + g[e]
  <2>1. \A x \in S \cup {e} : g[x] \in Int
    BY <1>3
  <2>2. SumFunctionOnSet(g, S \cup {e}) = g[e] + SumFunctionOnSet(g, S)
    BY <1>3, <2>1, SumAdd
  <2>3. SumFunctionOnSet(f, S) = SumFunctionOnSet(g, S)
    BY <1>3, SumAgree
  <2>4. SumFunctionOnSet(g, S) \in Int
    BY <1>3, <2>1, SumInt
  <2> QED
    BY <1>3, <2>2, <2>3, <2>4
<1>5. SumFunctionOnSet(f, S) \in Int
  BY <1>3, SumInt
<1> QED
  BY <1>3, <1>4, <1>5 DEF S, e

\* ... or in which one row changes.
LEMMA RowChanged ==
  ASSUME NEW f, NEW g, NEW k \in Nat, DOMAIN f = 1..k, DOMAIN g = 1..k, NEW e \in 1..k,
         \A n \in 1..k : f[n] \in Int, g[e] \in Int, \A n \in 1..k : n = e \/ g[n] = f[n]
  PROVE  SumFunction(f) \in Int /\ SumFunction(g) = SumFunction(f) + (g[e] - f[e])
<1> DEFINE S == 1..k
<1>1. /\ IsFiniteSet(S) /\ e \in S /\ (\A n \in S : f[n] \in Int) /\ \A n \in S : n = e \/ g[n] = f[n]
      /\ SumFunction(f) = SumFunctionOnSet(f, S) /\ SumFunction(g) = SumFunctionOnSet(g, S)
  BY FS_Interval DEF SumFunction
<1> HIDE DEF S
<1>2. SumFunctionOnSet(f, S) \in Int
  BY <1>1, SumInt
<1>3. SumFunctionOnSet(g, S) = SumFunctionOnSet(f, S) + (g[e] - f[e])
  <2>1. PICK d \in Int : d = g[e] - f[e]
    BY <1>1
  <2>2. g[e] = f[e] + d
    BY <1>1, <2>1
  <2> QED
    BY <1>1, <2>1, <2>2, SumChange
<1> QED
  BY <1>1, <1>2, <1>3

\* A table in which one row is replaced by another of its kind.
LEMMA RowReplaced ==
  ASSUME NEW R, NEW s \in Seq(R), NEW n \in DOMAIN s, NEW r \in R
  PROVE  [s EXCEPT ![n] = r] \in Seq(R)
OBVIOUS

\* A share of an invoice of total t, rounded, is off by half a unit at most.
LEMMA ShareRounds ==
  ASSUME NEW t \in Nat \ {0}, NEW a \in Int
  PROVE  LET r == (a + t \div 2) \div t
         IN r \in Int /\ 2 * (t * r - a) <= t /\ 2 * (a - t * r) <= t
<1> DEFINE h == t \div 2
           r == (a + h) \div t
<1>1. h \in Int /\ 2 * h <= t /\ t < 2 * h + 2
  BY Quotient
<1> HIDE DEF h
<1>2. r \in Int /\ t * r <= a + h /\ a + h < t * r + t
  BY <1>1, Quotient
<1> HIDE DEF r
<1>3. t * r \in Int
  BY <1>2
<1>4. 2 * (t * r - a) <= t /\ 2 * (a - t * r) <= t
  BY <1>1, <1>2, <1>3
<1> QED
  BY <1>2, <1>4 DEF h, r

-----------------------------------------------------------------------------
(* The rows.                                                               *)

\* What the invariant says of the types.
LEMMA ReceivablesTyped ==
  ASSUME ReceivablesShapes
  PROVE  /\ DOMAIN invoice = Invoices /\ DOMAIN payments = 1..Len(payments) /\ DOMAIN credits = 1..Len(credits)
         /\ Len(payments) \in Nat /\ Len(credits) \in Nat
         /\ IsFiniteSet(DOMAIN payments) /\ IsFiniteSet(DOMAIN credits)
         /\ \A i \in Invoices :
              /\ invoice[i] \in InvoiceRows /\ invoice[i].status \in {"none", "sent", "paid"}
              /\ invoice[i].currency \in Currencies /\ invoice[i].net \in Int /\ invoice[i].tax \in Int
              /\ invoice[i].total \in Int /\ invoice[i].paid \in Int /\ invoice[i].credited \in Int
         /\ \A n \in DOMAIN payments :
              /\ payments[n] \in PaymentRows /\ payments[n].invoice \in Invoices
              /\ payments[n].amount \in Nat \ {0} /\ payments[n].cash \in Int /\ payments[n].booked \in Int
              /\ payments[n].reversed \in BOOLEAN
         /\ \A n \in DOMAIN credits :
              /\ credits[n] \in CreditRows /\ credits[n].invoice \in Invoices
              /\ credits[n].amount \in Nat \ {0} /\ credits[n].revenue \in Int
         /\ \A a \in Accounts, c \in Currencies : balances[a][c] \in Int
<1>1. /\ DOMAIN payments = 1..Len(payments) /\ DOMAIN credits = 1..Len(credits)
      /\ Len(payments) \in Nat /\ Len(credits) \in Nat
      /\ \A n \in DOMAIN payments : payments[n] \in PaymentRows
      /\ \A n \in DOMAIN credits : credits[n] \in CreditRows
  BY DEF ReceivablesShapes
<1>2. IsFiniteSet(DOMAIN payments) /\ IsFiniteSet(DOMAIN credits)
  BY <1>1, FS_Interval
<1>3. /\ DOMAIN invoice = Invoices /\ \A i \in Invoices : invoice[i] \in InvoiceRows
      /\ \A a \in Accounts, c \in Currencies : balances[a][c] \in Int
  BY DEF ReceivablesShapes
<1> QED
  BY <1>1, <1>2, <1>3 DEF InvoiceRows, PaymentRows, CreditRows

\* A payment adds to what is paid, taken, cleared and realized ...
LEMMA PaymentAppended ==
  ASSUME ReceivablesShapes, NEW p \in PaymentRows, payments' = Append(payments, p), ~p.reversed,
         \A i \in Invoices : invoice'[i].currency = invoice[i].currency
  PROVE  LET fx == invoice[p.invoice].currency = Foreign
         IN /\ payments' \in Seq(PaymentRows)
            /\ DOMAIN payments' = DOMAIN payments \cup {Len(payments) + 1}
            /\ payments'[Len(payments) + 1] = p /\ \A n \in DOMAIN payments : payments'[n] = payments[n]
            /\ \A j : PaidOf(j) \in Int /\ PaidOf(j)' = PaidOf(j) + (IF p.invoice = j THEN p.amount ELSE 0)
            /\ CashTaken \in Int /\ CashTaken' = CashTaken + p.cash
            /\ ClearedInBase \in Int /\ ClearedInBase' = ClearedInBase + (IF fx THEN p.booked ELSE 0)
            /\ ClearedInForeign \in Int /\ ClearedInForeign' = ClearedInForeign + (IF fx THEN p.amount ELSE 0)
            /\ Realized \in Int /\ Realized' = Realized + (IF fx THEN p.booked - p.cash ELSE 0)
<1>0. PICK k \in Nat : k = Len(payments)
  BY DEF ReceivablesShapes
<1>1. /\ DOMAIN payments = 1..k /\ DOMAIN payments' = 1..(k + 1)
      /\ payments'[k + 1] = p /\ \A n \in 1..k : payments'[n] = payments[n]
      /\ payments' \in Seq(PaymentRows)
  BY <1>0 DEF ReceivablesShapes
<1>2. /\ p.invoice \in Invoices /\ p.amount \in Int /\ p.cash \in Int /\ p.booked \in Int
      /\ \A n \in 1..k : /\ payments[n].invoice \in Invoices /\ payments[n].amount \in Int
                         /\ payments[n].cash \in Int /\ payments[n].booked \in Int
  <2>1. p.invoice \in Invoices /\ p.amount \in Int /\ p.cash \in Int /\ p.booked \in Int
    BY DEF PaymentRows
  <2>2. \A n \in DOMAIN payments :
          /\ payments[n].invoice \in Invoices /\ payments[n].amount \in Int
          /\ payments[n].cash \in Int /\ payments[n].booked \in Int
    BY ReceivablesTyped
  <2>3. DOMAIN payments = 1..k
    BY <1>1
  <2> QED
    BY ONLY <2>1, <2>2, <2>3
<1>3. Live(k + 1)' /\ \A n \in 1..k : Live(n)' = Live(n)
  BY <1>1 DEF Live
<1>4. /\ Foreigners(k + 1)' <=> invoice[p.invoice].currency = Foreign
      /\ \A n \in 1..k : Foreigners(n)' = Foreigners(n)
  BY <1>1, <1>2, <1>3 DEF Foreigners
<1>5. ASSUME NEW j
      PROVE  PaidOf(j) \in Int /\ PaidOf(j)' = PaidOf(j) + (IF p.invoice = j THEN p.amount ELSE 0)
  <2> DEFINE f == [n \in DOMAIN payments |-> IF payments[n].invoice = j /\ Live(n) THEN payments[n].amount ELSE 0]
             g == [n \in DOMAIN payments' |-> IF payments'[n].invoice = j /\ Live(n)' THEN payments'[n].amount ELSE 0]
  <2>1. DOMAIN f = 1..k /\ DOMAIN g = 1..(k + 1) /\ \A n \in 1..k : f[n] \in Int /\ g[n] = f[n]
    BY <1>1, <1>2, <1>3
  <2>4. g[k + 1] = (IF p.invoice = j THEN p.amount ELSE 0)
    BY <1>1, <1>2, <1>3
  <2>5. (IF p.invoice = j THEN p.amount ELSE 0) \in Int
    BY <1>2
  <2>2. PaidOf(j) = SumFunction(f) /\ PaidOf(j)' = SumFunction(g)
    BY DEF PaidOf
  <2> HIDE DEF f, g
  <2>6. g[k + 1] \in Int
    BY <2>4, <2>5
  <2>3. SumFunction(f) \in Int /\ SumFunction(g) = SumFunction(f) + g[k + 1]
    BY <2>1, <2>6, RowAppended
  <2> QED
    BY <2>2, <2>3, <2>4
<1>6. CashTaken \in Int /\ CashTaken' = CashTaken + p.cash
  <2> DEFINE f == [n \in DOMAIN payments |-> IF Live(n) THEN payments[n].cash ELSE 0]
             g == [n \in DOMAIN payments' |-> IF Live(n)' THEN payments'[n].cash ELSE 0]
  <2>1. DOMAIN f = 1..k /\ DOMAIN g = 1..(k + 1) /\ \A n \in 1..k : f[n] \in Int /\ g[n] = f[n]
    BY <1>1, <1>2, <1>3
  <2>4. g[k + 1] = p.cash
    BY <1>1, <1>2, <1>3
  <2>5. p.cash \in Int
    BY <1>2
  <2>2. CashTaken = SumFunction(f) /\ CashTaken' = SumFunction(g)
    BY DEF CashTaken
  <2> HIDE DEF f, g
  <2>3. SumFunction(f) \in Int /\ SumFunction(g) = SumFunction(f) + g[k + 1]
    BY <2>1, <2>4, <2>5, RowAppended
  <2> QED
    BY <2>2, <2>3, <2>4
<1>7. /\ ClearedInBase \in Int
      /\ ClearedInBase' = ClearedInBase + (IF invoice[p.invoice].currency = Foreign THEN p.booked ELSE 0)
  <2> DEFINE f == [n \in DOMAIN payments |-> IF Foreigners(n) THEN payments[n].booked ELSE 0]
             g == [n \in DOMAIN payments' |-> IF Foreigners(n)' THEN payments'[n].booked ELSE 0]
  <2>1. DOMAIN f = 1..k /\ DOMAIN g = 1..(k + 1) /\ \A n \in 1..k : f[n] \in Int /\ g[n] = f[n]
    BY <1>1, <1>2, <1>4
  <2>4. g[k + 1] = (IF invoice[p.invoice].currency = Foreign THEN p.booked ELSE 0)
    BY <1>1, <1>2, <1>4
  <2>5. (IF invoice[p.invoice].currency = Foreign THEN p.booked ELSE 0) \in Int
    BY <1>2
  <2>2. ClearedInBase = SumFunction(f) /\ ClearedInBase' = SumFunction(g)
    BY DEF ClearedInBase
  <2> HIDE DEF f, g
  <2>6. g[k + 1] \in Int
    BY <2>4, <2>5
  <2>3. SumFunction(f) \in Int /\ SumFunction(g) = SumFunction(f) + g[k + 1]
    BY <2>1, <2>6, RowAppended
  <2> QED
    BY <2>2, <2>3, <2>4
<1>8. /\ ClearedInForeign \in Int
      /\ ClearedInForeign' = ClearedInForeign + (IF invoice[p.invoice].currency = Foreign THEN p.amount ELSE 0)
  <2> DEFINE f == [n \in DOMAIN payments |-> IF Foreigners(n) THEN payments[n].amount ELSE 0]
             g == [n \in DOMAIN payments' |-> IF Foreigners(n)' THEN payments'[n].amount ELSE 0]
  <2>1. DOMAIN f = 1..k /\ DOMAIN g = 1..(k + 1) /\ \A n \in 1..k : f[n] \in Int /\ g[n] = f[n]
    BY <1>1, <1>2, <1>4
  <2>4. g[k + 1] = (IF invoice[p.invoice].currency = Foreign THEN p.amount ELSE 0)
    BY <1>1, <1>2, <1>4
  <2>5. (IF invoice[p.invoice].currency = Foreign THEN p.amount ELSE 0) \in Int
    BY <1>2
  <2>2. ClearedInForeign = SumFunction(f) /\ ClearedInForeign' = SumFunction(g)
    BY DEF ClearedInForeign
  <2> HIDE DEF f, g
  <2>6. g[k + 1] \in Int
    BY <2>4, <2>5
  <2>3. SumFunction(f) \in Int /\ SumFunction(g) = SumFunction(f) + g[k + 1]
    BY <2>1, <2>6, RowAppended
  <2> QED
    BY <2>2, <2>3, <2>4
<1>9. /\ Realized \in Int
      /\ Realized' = Realized + (IF invoice[p.invoice].currency = Foreign THEN p.booked - p.cash ELSE 0)
  <2> DEFINE f == [n \in DOMAIN payments |-> IF Foreigners(n) THEN payments[n].booked - payments[n].cash ELSE 0]
             g == [n \in DOMAIN payments' |-> IF Foreigners(n)' THEN payments'[n].booked - payments'[n].cash ELSE 0]
  <2>1. DOMAIN f = 1..k /\ DOMAIN g = 1..(k + 1) /\ \A n \in 1..k : f[n] \in Int /\ g[n] = f[n]
    BY <1>1, <1>2, <1>4
  <2>4. g[k + 1] = (IF invoice[p.invoice].currency = Foreign THEN p.booked - p.cash ELSE 0)
    BY <1>1, <1>2, <1>4
  <2>5. (IF invoice[p.invoice].currency = Foreign THEN p.booked - p.cash ELSE 0) \in Int
    BY <1>2
  <2>2. Realized = SumFunction(f) /\ Realized' = SumFunction(g)
    BY DEF Realized
  <2> HIDE DEF f, g
  <2>6. g[k + 1] \in Int
    BY <2>4, <2>5
  <2>3. SumFunction(f) \in Int /\ SumFunction(g) = SumFunction(f) + g[k + 1]
    BY <2>1, <2>6, RowAppended
  <2> QED
    BY <2>2, <2>3, <2>4
<1> QED
  BY <1>0, <1>1, <1>5, <1>6, <1>7, <1>8, <1>9

\* ... and its reversal takes all of it back.
LEMMA PaymentUndone ==
  ASSUME ReceivablesShapes, NEW n \in DOMAIN payments, Live(n),
         payments' = [payments EXCEPT ![n].reversed = TRUE],
         \A i \in Invoices : invoice'[i].currency = invoice[i].currency
  PROVE  LET p == payments[n]
             fx == invoice[p.invoice].currency = Foreign
         IN /\ payments' \in Seq(PaymentRows) /\ DOMAIN payments' = DOMAIN payments
            /\ \A m \in DOMAIN payments :
                 /\ payments'[m].invoice = payments[m].invoice /\ payments'[m].cash = payments[m].cash
                 /\ payments'[m].amount = payments[m].amount
            /\ \A j : PaidOf(j) \in Int /\ PaidOf(j)' = PaidOf(j) - (IF p.invoice = j THEN p.amount ELSE 0)
            /\ CashTaken \in Int /\ CashTaken' = CashTaken - p.cash
            /\ ClearedInBase \in Int /\ ClearedInBase' = ClearedInBase - (IF fx THEN p.booked ELSE 0)
            /\ ClearedInForeign \in Int /\ ClearedInForeign' = ClearedInForeign - (IF fx THEN p.amount ELSE 0)
            /\ Realized \in Int /\ Realized' = Realized - (IF fx THEN p.booked - p.cash ELSE 0)
<1>0. PICK k \in Nat : k = Len(payments)
  BY DEF ReceivablesShapes
<1>1. DOMAIN payments = 1..k /\ DOMAIN payments' = 1..k /\ n \in 1..k /\ IsFiniteSet(1..k)
  BY <1>0, ReceivablesTyped
<1>2. \A m \in 1..k : /\ payments[m].invoice \in Invoices /\ payments[m].amount \in Int
                      /\ payments[m].cash \in Int /\ payments[m].booked \in Int
  BY <1>1, ReceivablesTyped
<1>3. \A m \in 1..k : /\ payments'[m].invoice = payments[m].invoice /\ payments'[m].amount = payments[m].amount
                      /\ payments'[m].cash = payments[m].cash /\ payments'[m].booked = payments[m].booked
                      /\ m = n \/ payments'[m] = payments[m]
  BY <1>1
<1>4. ~Live(n)' /\ \A m \in 1..k : m = n \/ (Live(m)' <=> Live(m))
  <2>1. payments'[n].reversed = TRUE
    BY <1>1, ReceivablesTyped DEF PaymentRows
  <2> QED
    BY <1>3, <2>1 DEF Live
<1>5. /\ Foreigners(n) <=> invoice[payments[n].invoice].currency = Foreign
      /\ ~Foreigners(n)'
      /\ \A m \in 1..k : m = n \/ (Foreigners(m)' <=> Foreigners(m))
  BY <1>2, <1>3, <1>4 DEF Foreigners
<1>6. ASSUME NEW j
      PROVE  PaidOf(j) \in Int /\ PaidOf(j)' = PaidOf(j) - (IF payments[n].invoice = j THEN payments[n].amount ELSE 0)
  <2> DEFINE f == [m \in DOMAIN payments |-> IF payments[m].invoice = j /\ Live(m) THEN payments[m].amount ELSE 0]
             g == [m \in DOMAIN payments' |-> IF payments'[m].invoice = j /\ Live(m)' THEN payments'[m].amount ELSE 0]
  <2>1. DOMAIN f = 1..k /\ DOMAIN g = 1..k
    BY <1>1
  <2>2. \A m \in 1..k : f[m] \in Int
    BY <1>1, <1>2
  <2>3. \A m \in 1..k : m = n \/ g[m] = f[m]
    BY <1>1, <1>3, <1>4
  <2>4. f[n] = (IF payments[n].invoice = j THEN payments[n].amount ELSE 0) /\ g[n] = 0
    BY <1>1, <1>3, <1>4
  <2>5. (IF payments[n].invoice = j THEN payments[n].amount ELSE 0) \in Int
    BY <1>1, <1>2
  <2>6. PaidOf(j) = SumFunction(f) /\ PaidOf(j)' = SumFunction(g)
    BY DEF PaidOf
  <2> HIDE DEF f, g
  <2>7. f[n] \in Int /\ g[n] \in Int /\ g[n] - f[n] = -(IF payments[n].invoice = j THEN payments[n].amount ELSE 0)
    BY <2>4, <2>5
  <2>8. SumFunction(g) = SumFunction(f) + (g[n] - f[n]) /\ SumFunction(f) \in Int
    BY <1>1, <2>1, <2>2, <2>3, <2>7, RowChanged
  <2> QED
    BY <2>5, <2>6, <2>7, <2>8
<1>7. CashTaken \in Int /\ CashTaken' = CashTaken - payments[n].cash
  <2> DEFINE f == [m \in DOMAIN payments |-> IF Live(m) THEN payments[m].cash ELSE 0]
             g == [m \in DOMAIN payments' |-> IF Live(m)' THEN payments'[m].cash ELSE 0]
  <2>1. DOMAIN f = 1..k /\ DOMAIN g = 1..k
    BY <1>1
  <2>2. \A m \in 1..k : f[m] \in Int
    BY <1>1, <1>2
  <2>3. \A m \in 1..k : m = n \/ g[m] = f[m]
    BY <1>1, <1>3, <1>4
  <2>4. f[n] = payments[n].cash /\ g[n] = 0
    BY <1>1, <1>3, <1>4
  <2>5. payments[n].cash \in Int
    BY <1>1, <1>2
  <2>6. CashTaken = SumFunction(f) /\ CashTaken' = SumFunction(g)
    BY DEF CashTaken
  <2> HIDE DEF f, g
  <2>7. f[n] \in Int /\ g[n] \in Int /\ g[n] - f[n] = -payments[n].cash
    BY <2>4, <2>5
  <2>8. SumFunction(g) = SumFunction(f) + (g[n] - f[n]) /\ SumFunction(f) \in Int
    BY <1>1, <2>1, <2>2, <2>3, <2>7, RowChanged
  <2> QED
    BY <2>5, <2>6, <2>7, <2>8
<1>8. ClearedInBase \in Int /\ ClearedInBase' = ClearedInBase - (IF invoice[payments[n].invoice].currency = Foreign THEN payments[n].booked ELSE 0)
  <2> DEFINE f == [m \in DOMAIN payments |-> IF Foreigners(m) THEN payments[m].booked ELSE 0]
             g == [m \in DOMAIN payments' |-> IF Foreigners(m)' THEN payments'[m].booked ELSE 0]
  <2>1. DOMAIN f = 1..k /\ DOMAIN g = 1..k
    BY <1>1
  <2>2. \A m \in 1..k : f[m] \in Int
    BY <1>1, <1>2
  <2>3. \A m \in 1..k : m = n \/ g[m] = f[m]
    BY <1>1, <1>3, <1>5
  <2>4. f[n] = (IF invoice[payments[n].invoice].currency = Foreign THEN payments[n].booked ELSE 0) /\ g[n] = 0
    BY <1>1, <1>5
  <2>5. (IF invoice[payments[n].invoice].currency = Foreign THEN payments[n].booked ELSE 0) \in Int
    BY <1>1, <1>2
  <2>6. ClearedInBase = SumFunction(f) /\ ClearedInBase' = SumFunction(g)
    BY DEF ClearedInBase
  <2> HIDE DEF f, g
  <2>7. f[n] \in Int /\ g[n] \in Int /\ g[n] - f[n] = -(IF invoice[payments[n].invoice].currency = Foreign THEN payments[n].booked ELSE 0)
    BY <2>4, <2>5
  <2>8. SumFunction(g) = SumFunction(f) + (g[n] - f[n]) /\ SumFunction(f) \in Int
    BY <1>1, <2>1, <2>2, <2>3, <2>7, RowChanged
  <2> QED
    BY <2>5, <2>6, <2>7, <2>8
<1>9. ClearedInForeign \in Int /\ ClearedInForeign' = ClearedInForeign - (IF invoice[payments[n].invoice].currency = Foreign THEN payments[n].amount ELSE 0)
  <2> DEFINE f == [m \in DOMAIN payments |-> IF Foreigners(m) THEN payments[m].amount ELSE 0]
             g == [m \in DOMAIN payments' |-> IF Foreigners(m)' THEN payments'[m].amount ELSE 0]
  <2>1. DOMAIN f = 1..k /\ DOMAIN g = 1..k
    BY <1>1
  <2>2. \A m \in 1..k : f[m] \in Int
    BY <1>1, <1>2
  <2>3. \A m \in 1..k : m = n \/ g[m] = f[m]
    BY <1>1, <1>3, <1>5
  <2>4. f[n] = (IF invoice[payments[n].invoice].currency = Foreign THEN payments[n].amount ELSE 0) /\ g[n] = 0
    BY <1>1, <1>5
  <2>5. (IF invoice[payments[n].invoice].currency = Foreign THEN payments[n].amount ELSE 0) \in Int
    BY <1>1, <1>2
  <2>6. ClearedInForeign = SumFunction(f) /\ ClearedInForeign' = SumFunction(g)
    BY DEF ClearedInForeign
  <2> HIDE DEF f, g
  <2>7. f[n] \in Int /\ g[n] \in Int /\ g[n] - f[n] = -(IF invoice[payments[n].invoice].currency = Foreign THEN payments[n].amount ELSE 0)
    BY <2>4, <2>5
  <2>8. SumFunction(g) = SumFunction(f) + (g[n] - f[n]) /\ SumFunction(f) \in Int
    BY <1>1, <2>1, <2>2, <2>3, <2>7, RowChanged
  <2> QED
    BY <2>5, <2>6, <2>7, <2>8
<1>10. Realized \in Int /\ Realized' = Realized - (IF invoice[payments[n].invoice].currency = Foreign THEN payments[n].booked - payments[n].cash ELSE 0)
  <2> DEFINE f == [m \in DOMAIN payments |-> IF Foreigners(m) THEN payments[m].booked - payments[m].cash ELSE 0]
             g == [m \in DOMAIN payments' |-> IF Foreigners(m)' THEN payments'[m].booked - payments'[m].cash ELSE 0]
  <2>1. DOMAIN f = 1..k /\ DOMAIN g = 1..k
    BY <1>1
  <2>2. \A m \in 1..k : f[m] \in Int
    BY <1>1, <1>2
  <2>3. \A m \in 1..k : m = n \/ g[m] = f[m]
    BY <1>1, <1>3, <1>5
  <2>4. f[n] = (IF invoice[payments[n].invoice].currency = Foreign THEN payments[n].booked - payments[n].cash ELSE 0) /\ g[n] = 0
    BY <1>1, <1>5
  <2>5. (IF invoice[payments[n].invoice].currency = Foreign THEN payments[n].booked - payments[n].cash ELSE 0) \in Int
    BY <1>1, <1>2
  <2>6. Realized = SumFunction(f) /\ Realized' = SumFunction(g)
    BY DEF Realized
  <2> HIDE DEF f, g
  <2>7. f[n] \in Int /\ g[n] \in Int /\ g[n] - f[n] = -(IF invoice[payments[n].invoice].currency = Foreign THEN payments[n].booked - payments[n].cash ELSE 0)
    BY <2>4, <2>5
  <2>8. SumFunction(g) = SumFunction(f) + (g[n] - f[n]) /\ SumFunction(f) \in Int
    BY <1>1, <2>1, <2>2, <2>3, <2>7, RowChanged
  <2> QED
    BY <2>5, <2>6, <2>7, <2>8
<1>11. payments' \in Seq(PaymentRows)
  <2>1. payments \in Seq(PaymentRows) /\ payments[n] \in PaymentRows
    BY ReceivablesTyped DEF ReceivablesShapes
  <2> DEFINE row == [payments[n] EXCEPT !.reversed = TRUE]
  <2>2. row \in PaymentRows /\ payments' = [payments EXCEPT ![n] = row]
    BY <2>1 DEF PaymentRows
  <2> HIDE DEF row
  <2>3. n \in DOMAIN payments
    OBVIOUS
  <2>4. [payments EXCEPT ![n] = row] \in Seq(PaymentRows)
    BY ONLY <2>1, <2>2, <2>3, RowReplaced
  <2> QED
    BY ONLY <2>2, <2>4
<1> QED
  BY <1>1, <1>3, <1>6, <1>7, <1>8, <1>9, <1>10, <1>11

\* Payments that stay are what they were, while their invoices keep their currency.
LEMMA PaymentsKept ==
  ASSUME payments' = payments,
         \A n \in DOMAIN payments : invoice'[payments[n].invoice].currency = invoice[payments[n].invoice].currency
  PROVE  /\ \A j : PaidOf(j)' = PaidOf(j)
         /\ CashTaken' = CashTaken /\ ClearedInBase' = ClearedInBase
         /\ ClearedInForeign' = ClearedInForeign /\ Realized' = Realized
<1>1. \A n : Live(n)' <=> Live(n)
  BY DEF Live
<1>2. \A n \in DOMAIN payments : Foreigners(n)' <=> Foreigners(n)
  BY <1>1 DEF Foreigners
<1>3. (\A j : PaidOf(j)' = PaidOf(j)) /\ CashTaken' = CashTaken
  BY <1>1 DEF PaidOf, CashTaken
<1>4. [n \in DOMAIN payments' |-> IF Foreigners(n)' THEN payments'[n].booked ELSE 0]
        = [n \in DOMAIN payments |-> IF Foreigners(n) THEN payments[n].booked ELSE 0]
  BY <1>2
<1>5. [n \in DOMAIN payments' |-> IF Foreigners(n)' THEN payments'[n].amount ELSE 0]
        = [n \in DOMAIN payments |-> IF Foreigners(n) THEN payments[n].amount ELSE 0]
  BY <1>2
<1>6. [n \in DOMAIN payments' |-> IF Foreigners(n)' THEN payments'[n].booked - payments'[n].cash ELSE 0]
        = [n \in DOMAIN payments |-> IF Foreigners(n) THEN payments[n].booked - payments[n].cash ELSE 0]
  BY <1>2
<1>7. ClearedInBase' = ClearedInBase /\ ClearedInForeign' = ClearedInForeign /\ Realized' = Realized
  BY <1>4, <1>5, <1>6 DEF ClearedInBase, ClearedInForeign, Realized
<1> QED
  BY <1>3, <1>7

\* What credit notes say is of the type of a sum, and not negative.
LEMMA CreditsTyped ==
  ASSUME ReceivablesShapes, NEW j
  PROVE  CreditedOf(j) \in Nat /\ RevenueTaken(j) \in Int /\ Cardinality(NotesOf(j)) \in Nat /\ IsFiniteSet(NotesOf(j))
<1> DEFINE f == [n \in DOMAIN credits |-> IF credits[n].invoice = j THEN credits[n].amount ELSE 0]
           g == [n \in DOMAIN credits |-> IF credits[n].invoice = j THEN credits[n].revenue ELSE 0]
<1>0. \A n \in DOMAIN credits : credits[n].amount \in Nat /\ credits[n].revenue \in Int
  BY ReceivablesTyped
<1>1. (\A n \in DOMAIN credits : f[n] \in Nat) /\ \A n \in DOMAIN credits : g[n] \in Int
  BY <1>0
<1>2. CreditedOf(j) = SumFunctionOnSet(f, DOMAIN credits) /\ RevenueTaken(j) = SumFunctionOnSet(g, DOMAIN credits)
  BY DEF CreditedOf, RevenueTaken, SumFunction
<1> HIDE DEF f, g
<1>3. IsFiniteSet(DOMAIN credits)
  BY ReceivablesTyped
<1>4. SumFunctionOnSet(f, DOMAIN credits) \in Nat /\ SumFunctionOnSet(g, DOMAIN credits) \in Int
  BY <1>1, <1>3, SumNat, SumInt
<1>5. IsFiniteSet(NotesOf(j))
  BY <1>3, FS_Subset DEF NotesOf
<1> QED
  BY <1>2, <1>4, <1>5, FS_CardinalityType

\* A credit note adds to what is credited and taken back.
LEMMA CreditAppended ==
  ASSUME ReceivablesShapes, NEW p \in CreditRows, credits' = Append(credits, p)
  PROVE  /\ credits' \in Seq(CreditRows)
         /\ \A n \in DOMAIN credits' : credits'[n] = p \/ (n \in DOMAIN credits /\ credits'[n] = credits[n])
         /\ \A j : /\ CreditedOf(j)' = CreditedOf(j) + (IF p.invoice = j THEN p.amount ELSE 0)
                   /\ RevenueTaken(j)' = RevenueTaken(j) + (IF p.invoice = j THEN p.revenue ELSE 0)
                   /\ Cardinality(NotesOf(j))' = Cardinality(NotesOf(j)) + (IF p.invoice = j THEN 1 ELSE 0)
<1>0. PICK k \in Nat : k = Len(credits)
  BY DEF ReceivablesShapes
<1>1. /\ DOMAIN credits = 1..k /\ DOMAIN credits' = 1..(k + 1)
      /\ credits'[k + 1] = p /\ \A n \in 1..k : credits'[n] = credits[n]
      /\ credits' \in Seq(CreditRows)
  BY <1>0 DEF ReceivablesShapes
<1>2. /\ p.amount \in Int /\ p.revenue \in Int
      /\ \A n \in 1..k : credits[n].amount \in Int /\ credits[n].revenue \in Int
  <2>1. p.amount \in Int /\ p.revenue \in Int
    BY DEF CreditRows
  <2>2. \A n \in DOMAIN credits : credits[n].amount \in Int /\ credits[n].revenue \in Int
    BY ReceivablesTyped
  <2>3. DOMAIN credits = 1..k
    BY <1>1
  <2> QED
    BY ONLY <2>1, <2>2, <2>3
<1>3. ASSUME NEW j
      PROVE  CreditedOf(j)' = CreditedOf(j) + (IF p.invoice = j THEN p.amount ELSE 0)
  <2> DEFINE f == [n \in DOMAIN credits |-> IF credits[n].invoice = j THEN credits[n].amount ELSE 0]
             g == [n \in DOMAIN credits' |-> IF credits'[n].invoice = j THEN credits'[n].amount ELSE 0]
  <2>1. DOMAIN f = 1..k /\ DOMAIN g = 1..(k + 1) /\ \A n \in 1..k : f[n] \in Int /\ g[n] = f[n]
    BY <1>1, <1>2
  <2>2. g[k + 1] = (IF p.invoice = j THEN p.amount ELSE 0)
    BY <1>1
  <2>3. CreditedOf(j) = SumFunction(f) /\ CreditedOf(j)' = SumFunction(g)
    BY DEF CreditedOf
  <2> HIDE DEF f, g
  <2>4. g[k + 1] \in Int
    BY <1>2, <2>2
  <2>5. SumFunction(f) \in Int /\ SumFunction(g) = SumFunction(f) + g[k + 1]
    BY <2>1, <2>4, RowAppended
  <2> QED
    BY <2>2, <2>3, <2>5
<1>4. ASSUME NEW j
      PROVE  RevenueTaken(j)' = RevenueTaken(j) + (IF p.invoice = j THEN p.revenue ELSE 0)
  <2> DEFINE f == [n \in DOMAIN credits |-> IF credits[n].invoice = j THEN credits[n].revenue ELSE 0]
             g == [n \in DOMAIN credits' |-> IF credits'[n].invoice = j THEN credits'[n].revenue ELSE 0]
  <2>1. DOMAIN f = 1..k /\ DOMAIN g = 1..(k + 1) /\ \A n \in 1..k : f[n] \in Int /\ g[n] = f[n]
    BY <1>1, <1>2
  <2>2. g[k + 1] = (IF p.invoice = j THEN p.revenue ELSE 0)
    BY <1>1
  <2>3. RevenueTaken(j) = SumFunction(f) /\ RevenueTaken(j)' = SumFunction(g)
    BY DEF RevenueTaken
  <2> HIDE DEF f, g
  <2>4. g[k + 1] \in Int
    BY <1>2, <2>2
  <2>5. SumFunction(f) \in Int /\ SumFunction(g) = SumFunction(f) + g[k + 1]
    BY <2>1, <2>4, RowAppended
  <2> QED
    BY <2>2, <2>3, <2>5
<1>5. ASSUME NEW j
      PROVE  Cardinality(NotesOf(j))' = Cardinality(NotesOf(j)) + (IF p.invoice = j THEN 1 ELSE 0)
  <2>1. IsFiniteSet(NotesOf(j)) /\ Cardinality(NotesOf(j)) \in Nat
    BY CreditsTyped
  <2>2. CASE p.invoice = j
    <3>1. NotesOf(j)' = NotesOf(j) \cup {k + 1} /\ k + 1 \notin NotesOf(j)
      BY <1>1, <2>2 DEF NotesOf
    <3> QED
      BY <2>1, <2>2, <3>1, FS_AddElement
  <2>3. CASE p.invoice # j
    <3>1. NotesOf(j)' = NotesOf(j)
      BY <1>1, <2>3 DEF NotesOf
    <3> QED
      BY <2>1, <2>3, <3>1
  <2> QED
    BY <2>2, <2>3
<1>6. credits'[k + 1] = p
  BY <1>1
<1>7. ASSUME NEW n \in DOMAIN credits'
      PROVE  credits'[n] = p \/ (n \in DOMAIN credits /\ credits'[n] = credits[n])
  <2>1. n \in 1..(k + 1)
    BY <1>1
  <2>2. CASE n = k + 1
    BY <1>6, <2>2
  <2>3. CASE n # k + 1
    <3>1. n \in 1..k
      BY <2>1, <2>3
    <3>2. n \in DOMAIN credits
      BY <1>1, <3>1
    <3>3. credits'[n] = credits[n]
      BY <1>1, <3>1
    <3> QED
      BY <3>2, <3>3
  <2> QED
    BY <2>2, <2>3
<1> QED
  BY <1>1, <1>3, <1>4, <1>5, <1>7

\* What one invoice adds to the aging report.
Aged(i, c) == IF invoice[i].currency = c THEN Outstanding(i) ELSE 0

\* The report moves by what the only invoice that changes moves.
LEMMA AgingMoves ==
  ASSUME ReceivablesShapes, ReceivablesShapes', NEW i \in Invoices,
         \A j \in Invoices : j = i \/ invoice'[j] = invoice[j], NEW c
  PROVE  AgingTotal(c) \in Int /\ AgingTotal(c)' = AgingTotal(c) + (Aged(i, c)' - Aged(i, c))
<1> DEFINE f == [j \in Invoices |-> Aged(j, c)]
           g == [j \in Invoices |-> Aged(j, c)']
<1>1. \A j \in Invoices : Aged(j, c) \in Int
  BY ReceivablesTyped DEF Aged, Outstanding
<1>2. \A j \in Invoices : Aged(j, c)' \in Int
  <2>1. \A j \in Invoices : /\ invoice'[j].total \in Int /\ invoice'[j].paid \in Int
                            /\ invoice'[j].credited \in Int
    BY DEF ReceivablesShapes, InvoiceRows
  <2> QED
    BY <2>1 DEF Aged, Outstanding
<1>3. \A j \in Invoices : j = i \/ Aged(j, c)' = Aged(j, c)
  BY DEF Aged, Outstanding
<1>4. /\ AgingTotal(c) = SumFunctionOnSet(f, Invoices) /\ AgingTotal(c)' = SumFunctionOnSet(g, Invoices)
  BY DEF AgingTotal, SumFunction, Aged
<1>5. PICK d \in Int : d = Aged(i, c)' - Aged(i, c)
  BY <1>1, <1>2
<1>6. (\A j \in Invoices : f[j] \in Int) /\ g[i] = f[i] + d /\ \A j \in Invoices : j = i \/ g[j] = f[j]
  BY <1>1, <1>2, <1>3, <1>5
<1> HIDE DEF f, g
<1>7. SumFunctionOnSet(g, Invoices) = SumFunctionOnSet(f, Invoices) + d
  BY <1>6, SumChange, ReceivablesAssumption
<1>8. SumFunctionOnSet(f, Invoices) \in Int
  BY <1>6, SumInt, ReceivablesAssumption
<1> QED
  BY <1>4, <1>5, <1>7, <1>8

-----------------------------------------------------------------------------
(* Entries.                                                                *)

\* What an entry debits an account in a currency.
Debit(e, a) == IF a \in DOMAIN e THEN e[a] ELSE 0

\* An entry in one currency adds its debits there ...
LEMMA PostIs ==
  ASSUME ReceivablesShapes, NEW c \in Currencies, NEW e, \A a \in Accounts : Debit(e, a) \in Int
  PROVE  /\ Post(c, e) \in [Accounts -> [Currencies -> Int]]
         /\ \A a \in Accounts, d \in Currencies :
              Post(c, e)[a][d] = balances[a][d] + (IF d = c THEN Debit(e, a) ELSE 0)
<1>1. balances \in [Accounts -> [Currencies -> Int]]
  BY DEF ReceivablesShapes
<1>2. ASSUME NEW a \in Accounts
      PROVE  /\ Post(c, e)[a] \in [Currencies -> Int]
             /\ \A d \in Currencies : Post(c, e)[a][d] = balances[a][d] + (IF d = c THEN Debit(e, a) ELSE 0)
  <2>1. Post(c, e)[a] = IF a \in DOMAIN e THEN [balances[a] EXCEPT ![c] = @ + e[a]] ELSE balances[a]
    BY DEF Post
  <2>2. CASE a \in DOMAIN e
    <3>1. e[a] \in Int /\ Debit(e, a) = e[a]
      BY <2>2 DEF Debit
    <3> QED
      BY <1>1, <2>1, <2>2, <3>1
  <2>3. CASE a \notin DOMAIN e
    BY <1>1, <2>1, <2>3 DEF Debit
  <2> QED
    BY <2>2, <2>3
<1>3. Post(c, e) = [a \in Accounts |-> Post(c, e)[a]]
  BY DEF Post
<1> QED
  BY <1>2, <1>3

\* ... and an entry in each currency adds to both.
LEMMA PostBothIs ==
  ASSUME ReceivablesShapes, NEW e, NEW f, \A a \in Accounts : Debit(e, a) \in Int /\ Debit(f, a) \in Int
  PROVE  /\ PostBoth(e, f) \in [Accounts -> [Currencies -> Int]]
         /\ \A a \in Accounts, d \in Currencies :
              PostBoth(e, f)[a][d] = balances[a][d] + (IF d = Base THEN Debit(e, a) ELSE Debit(f, a))
<1>1. \A a \in Accounts, d \in Currencies : balances[a][d] \in Int
  BY DEF ReceivablesShapes
<1>2. PostBoth(e, f) = [a \in Accounts |-> [c \in Currencies |->
        balances[a][c] + (IF c = Base THEN Debit(e, a) ELSE Debit(f, a))]]
  BY DEF PostBoth, Debit
<1> QED
  BY <1>1, <1>2

-----------------------------------------------------------------------------
(* Steps.                                                                  *)

\* A step that moves what is paid of an invoice by d and leaves its status at s.
PaidMoves(i, d, s) ==
  /\ invoice[i].status # "none"
  /\ invoice' = [invoice EXCEPT ![i].paid = @ + d, ![i].status = s]
  /\ payments' \in Seq(PaymentRows)
  /\ \A n \in DOMAIN payments' :
       /\ invoice[payments'[n].invoice].status # "none"
       /\ invoice[payments'[n].invoice].currency = Base => payments'[n].cash = payments'[n].amount
  /\ \A j : PaidOf(j) \in Int /\ PaidOf(j)' = PaidOf(j) + (IF i = j THEN d ELSE 0)
  /\ credits' = credits
  /\ balances' \in [Accounts -> [Currencies -> Int]]
  /\ \A c \in Currencies :
       balances'["receivable"][c] = balances["receivable"][c] - (IF c = invoice[i].currency THEN d ELSE 0)
  /\ invoice[i].paid + d + invoice[i].credited <= invoice[i].total
  /\ s = "paid" => invoice[i].paid + d + invoice[i].credited >= invoice[i].total

\* ... keeps all that is said of invoices and of what is receivable.
LEMMA PaidStep ==
  ASSUME ReceivablesInv, NEW i \in Invoices, NEW d \in Int, NEW s \in {"sent", "paid"}, PaidMoves(i, d, s)
  PROVE  /\ ReceivablesShapes' /\ RowsAreOfInvoices' /\ CreditsShare'
         /\ ReceivableIsOutstanding' /\ PaidIsSettled'
<1> DEFINE r == [invoice[i] EXCEPT !.paid = @ + d, !.status = s]
<1>0. ReceivablesShapes /\ RowsAreOfInvoices /\ CreditsShare /\ ReceivableIsOutstanding /\ PaidIsSettled
  BY DEF ReceivablesInv
<1>1. /\ r \in InvoiceRows /\ r.status = s /\ r.paid = invoice[i].paid + d
      /\ r.currency = invoice[i].currency /\ r.net = invoice[i].net /\ r.tax = invoice[i].tax
      /\ r.total = invoice[i].total /\ r.credited = invoice[i].credited
  <2>1. invoice[i] \in InvoiceRows /\ invoice[i].paid + d \in Int /\ s \in {"none", "sent", "paid"}
    BY <1>0, ReceivablesTyped
  <2> QED
    BY <2>1 DEF InvoiceRows
<1>2. invoice' = [invoice EXCEPT ![i] = r]
  BY DEF PaidMoves
<1> HIDE DEF r
<1>3. /\ invoice' \in [Invoices -> InvoiceRows] /\ invoice'[i] = r
      /\ \A j \in Invoices : j = i \/ invoice'[j] = invoice[j]
  BY <1>0, <1>1, <1>2 DEF ReceivablesShapes
<1>4. \A j \in Invoices : /\ invoice'[j].net = invoice[j].net /\ invoice'[j].tax = invoice[j].tax
                          /\ invoice'[j].total = invoice[j].total /\ invoice'[j].credited = invoice[j].credited
                          /\ invoice'[j].currency = invoice[j].currency
                          /\ (invoice'[j].status = "none" <=> invoice[j].status = "none")
  BY <1>1, <1>3 DEF PaidMoves
<1>5. ReceivablesShapes'
  BY <1>0, <1>3 DEF PaidMoves, ReceivablesShapes
<1>6. RowsAreOfInvoices'
  <2>1. ASSUME NEW j \in Invoices
        PROVE  IF invoice'[j].status = "none" THEN invoice'[j] = NoInvoice
               ELSE invoice'[j].total = invoice'[j].net + invoice'[j].tax /\ invoice'[j].total > 0
    <3>1. IF invoice[j].status = "none" THEN invoice[j] = NoInvoice
          ELSE invoice[j].total = invoice[j].net + invoice[j].tax /\ invoice[j].total > 0
      BY <1>0 DEF RowsAreOfInvoices
    <3>2. invoice[j].status = "none" => invoice'[j] = invoice[j]
      BY <1>3 DEF PaidMoves
    <3> QED
      BY <1>4, <3>1, <3>2
  <2>2. \A n \in DOMAIN payments' : payments'[n].invoice \in Invoices
    <3>1. payments' \in Seq(PaymentRows)
      BY DEF PaidMoves
    <3>2. ASSUME NEW n \in DOMAIN payments' PROVE payments'[n] \in PaymentRows
      BY <3>1
    <3> QED
      BY <3>2 DEF PaymentRows
  <2>3. \A n \in DOMAIN payments' :
          /\ invoice'[payments'[n].invoice].status # "none"
          /\ invoice'[payments'[n].invoice].currency = Base => payments'[n].cash = payments'[n].amount
    BY <1>4, <2>2 DEF PaidMoves
  <2>4. \A n \in DOMAIN credits : credits[n].invoice \in Invoices /\ invoice[credits[n].invoice].status # "none"
    BY <1>0, ReceivablesTyped DEF RowsAreOfInvoices
  <2>5. \A n \in DOMAIN credits' : invoice'[credits'[n].invoice].status # "none"
    <3>1. credits' = credits
      BY DEF PaidMoves
    <3> QED
      BY <1>4, <2>4, <3>1
  <2> QED
    BY <2>1, <2>3, <2>5 DEF RowsAreOfInvoices
<1>7. CreditsShare'
  <2>1. \A j : CreditedOf(j)' = CreditedOf(j) /\ RevenueTaken(j)' = RevenueTaken(j) /\ NotesOf(j)' = NotesOf(j)
    BY DEF PaidMoves, CreditedOf, RevenueTaken, NotesOf
  <2> QED
    BY <1>0, <1>4, <2>1 DEF CreditsShare
<1>8. /\ invoice[i].total \in Int /\ invoice[i].paid \in Int /\ invoice[i].credited \in Int
      /\ invoice[i].paid + invoice[i].credited <= invoice[i].total
  BY <1>0, ReceivablesTyped DEF ReceivableIsOutstanding
<1>9. /\ Outstanding(i) = invoice[i].total - (invoice[i].paid + invoice[i].credited)
      /\ Outstanding(i)' = invoice[i].total - (invoice[i].paid + d + invoice[i].credited)
  <2>1. invoice[i].paid + d + invoice[i].credited <= invoice[i].total
    BY DEF PaidMoves
  <2>2. /\ invoice'[i].total = invoice[i].total /\ invoice'[i].paid = invoice[i].paid + d
        /\ invoice'[i].credited = invoice[i].credited
    BY <1>1, <1>3
  <2> QED
    BY <1>8, <2>1, <2>2 DEF Outstanding
<1>10. ReceivableIsOutstanding'
  <2>1. ASSUME NEW c \in Currencies PROVE balances'["receivable"][c] = AgingTotal(c)'
    <3>1. AgingTotal(c) \in Int /\ AgingTotal(c)' = AgingTotal(c) + (Aged(i, c)' - Aged(i, c))
      BY <1>0, <1>3, <1>5, AgingMoves
    <3>2. Aged(i, c)' - Aged(i, c) = - (IF c = invoice[i].currency THEN d ELSE 0)
      BY <1>4, <1>8, <1>9 DEF Aged
    <3>3. balances["receivable"][c] = AgingTotal(c)
      BY <1>0 DEF ReceivableIsOutstanding
    <3>4. balances'["receivable"][c] = balances["receivable"][c] - (IF c = invoice[i].currency THEN d ELSE 0)
      BY DEF PaidMoves
    <3>5. (IF c = invoice[i].currency THEN d ELSE 0) \in Int
      OBVIOUS
    <3> QED
      BY <3>1, <3>2, <3>3, <3>4, <3>5
  <2>2. ASSUME NEW j \in Invoices
        PROVE  /\ invoice'[j].paid + invoice'[j].credited <= invoice'[j].total
               /\ invoice'[j].paid = PaidOf(j)'
    <3>1. /\ invoice[j].paid + invoice[j].credited <= invoice[j].total /\ invoice[j].paid = PaidOf(j)
      BY <1>0 DEF ReceivableIsOutstanding
    <3>2. PaidOf(j) \in Int /\ PaidOf(j)' = PaidOf(j) + (IF i = j THEN d ELSE 0)
      BY DEF PaidMoves
    <3>3. CASE j = i
      BY <1>1, <1>3, <1>8, <3>1, <3>2, <3>3 DEF PaidMoves
    <3>4. CASE j # i
      BY <1>3, <3>1, <3>2, <3>4
    <3> QED
      BY <3>3, <3>4
  <2> QED
    BY <2>1, <2>2 DEF ReceivableIsOutstanding
<1>11. PaidIsSettled'
  <2>1. ASSUME NEW j \in Invoices, invoice'[j].status = "paid" PROVE Outstanding(j)' = 0
    <3>1. CASE j = i
      <4>1. s = "paid"
        BY <1>1, <1>3, <2>1, <3>1
      <4>2. /\ invoice[i].paid + d + invoice[i].credited <= invoice[i].total
            /\ invoice[i].paid + d + invoice[i].credited >= invoice[i].total
        BY <4>1 DEF PaidMoves
      <4> QED
        BY <1>8, <1>9, <3>1, <4>2
    <3>2. CASE j # i
      BY <1>0, <1>3, <2>1, <3>2 DEF PaidIsSettled, Outstanding
    <3> QED
      BY <3>1, <3>2
  <2> QED
    BY <2>1 DEF PaidIsSettled
<1> QED
  BY <1>5, <1>6, <1>7, <1>10, <1>11

\* What the invariant says of an invoice that can be paid.
LEMMA Payable ==
  ASSUME ReceivablesInv, NEW i \in Invoices, NEW amount \in Cash, CanPay(i, amount)
  PROVE  /\ amount \in Nat \ {0} /\ amount \in Int
         /\ invoice[i].status \in {"sent", "paid"} /\ invoice[i].currency \in Currencies
         /\ invoice[i].total \in Int /\ invoice[i].paid \in Int /\ invoice[i].credited \in Nat
         /\ invoice[i].paid + amount + invoice[i].credited <= invoice[i].total
<1>1. /\ invoice[i].total \in Int /\ invoice[i].paid \in Int /\ invoice[i].currency \in Currencies
  BY ReceivablesTyped DEF ReceivablesInv
<1>2. invoice[i].credited = CreditedOf(i) /\ CreditedOf(i) \in Nat
  BY CreditsTyped DEF ReceivablesInv, CreditsShare
<1>3. amount \in Nat \ {0}
  BY ReceivablesAssumption
<1>4. invoice[i].paid + amount + invoice[i].credited <= invoice[i].total
  BY <1>1, <1>2, <1>3 DEF CanPay, Outstanding
<1> QED
  BY <1>1, <1>2, <1>3, <1>4 DEF CanPay

\* The rows of payments after one is appended belong to invoices that exist.
LEMMA PaymentRowsExist ==
  ASSUME ReceivablesInv, NEW p \in PaymentRows, payments' = Append(payments, p),
         invoice[p.invoice].status # "none", invoice[p.invoice].currency = Base => p.cash = p.amount
  PROVE  \A n \in DOMAIN payments' :
           /\ invoice[payments'[n].invoice].status # "none"
           /\ invoice[payments'[n].invoice].currency = Base => payments'[n].cash = payments'[n].amount
<1>0. PICK k \in Nat : k = Len(payments)
  BY DEF ReceivablesInv, ReceivablesShapes
<1>1. /\ DOMAIN payments = 1..k /\ DOMAIN payments' = 1..(k + 1)
      /\ payments'[k + 1] = p /\ \A n \in 1..k : payments'[n] = payments[n]
  BY <1>0 DEF ReceivablesInv, ReceivablesShapes
<1>2. \A n \in 1..k : /\ invoice[payments[n].invoice].status # "none"
                      /\ invoice[payments[n].invoice].currency = Base => payments[n].cash = payments[n].amount
  BY <1>1 DEF ReceivablesInv, RowsAreOfInvoices
<1>3. ASSUME NEW n \in DOMAIN payments'
      PROVE  /\ invoice[payments'[n].invoice].status # "none"
             /\ invoice[payments'[n].invoice].currency = Base => payments'[n].cash = payments'[n].amount
  <2>1. n \in 1..(k + 1)
    BY <1>1
  <2>2. CASE n = k + 1
    <3>1. payments'[n] = p
      BY <1>1, <2>2
    <3> QED
      BY <3>1
  <2>3. CASE n # k + 1
    <3>1. n \in 1..k
      BY <2>1, <2>3
    <3>2. payments'[n] = payments[n]
      BY <1>1, <3>1
    <3>3. /\ invoice[payments[n].invoice].status # "none"
          /\ invoice[payments[n].invoice].currency = Base => payments[n].cash = payments[n].amount
      BY <1>2, <3>1
    <3> QED
      BY <3>2, <3>3
  <2> QED
    BY <2>2, <2>3
<1> QED
  BY <1>3

\* A payment in the organization's currency: one entry.
LEMMA RecordPaymentStep ==
  ASSUME ReceivablesInv, NEW i \in Invoices, NEW amount \in Cash, RecordPayment(i, amount)
  PROVE  ReceivablesInv'
<1> DEFINE p == [invoice |-> i, amount |-> amount, cash |-> amount, booked |-> amount, reversed |-> FALSE]
           e == [cash |-> amount, receivable |-> -amount]
           s == IF Settles(i, amount) THEN "paid" ELSE invoice[i].status
<1>1. /\ CanPay(i, amount) /\ invoice[i].currency = Base /\ payments' = Append(payments, p)
      /\ balances' = Post(Base, e) /\ credits' = credits
      /\ invoice' = [invoice EXCEPT ![i].paid = @ + amount, ![i].status = s]
  BY DEF RecordPayment
<1>2. /\ amount \in Nat \ {0} /\ amount \in Int
      /\ invoice[i].status \in {"sent", "paid"} /\ invoice[i].currency \in Currencies
      /\ invoice[i].total \in Int /\ invoice[i].paid \in Int /\ invoice[i].credited \in Nat
      /\ invoice[i].paid + amount + invoice[i].credited <= invoice[i].total
  BY <1>1, Payable
<1>3. /\ p \in PaymentRows /\ p.invoice = i /\ p.amount = amount /\ p.cash = amount /\ p.booked = amount
      /\ ~p.reversed
  BY <1>2 DEF PaymentRows
<1>4. /\ Debit(e, "cash") = amount /\ Debit(e, "receivable") = -amount
      /\ Debit(e, "revenue") = 0 /\ Debit(e, "tax") = 0 /\ Debit(e, "clearing") = 0 /\ Debit(e, "gain") = 0
  BY DEF Debit
<1>5. s \in {"sent", "paid"} /\ (s = "paid" => invoice[i].paid + amount + invoice[i].credited >= invoice[i].total)
  <2>1. invoice[i].status = "paid" => Outstanding(i) = 0
    BY DEF ReceivablesInv, PaidIsSettled
  <2>2. invoice[i].status # "paid"
    BY <1>1, <1>2, <2>1 DEF CanPay
  <2> QED
    BY <1>2, <2>2 DEF Settles
<1> HIDE DEF p, e, s
<1>6. ReceivablesShapes /\ Base \in Currencies /\ Foreign \in Currencies /\ \A a \in Accounts : Debit(e, a) \in Int
  BY <1>2, <1>4 DEF ReceivablesInv, Currencies, Accounts
<1>7. /\ balances' \in [Accounts -> [Currencies -> Int]]
      /\ \A a \in Accounts, d \in Currencies :
           balances'[a][d] = balances[a][d] + (IF d = Base THEN Debit(e, a) ELSE 0)
  BY <1>1, <1>6, PostIs
<1>8. \A j \in Invoices : invoice'[j].currency = invoice[j].currency
  BY <1>1, <1>6 DEF ReceivablesShapes, InvoiceRows
<1>9. LET fx == invoice[p.invoice].currency = Foreign
      IN /\ payments' \in Seq(PaymentRows)
         /\ \A j : PaidOf(j) \in Int /\ PaidOf(j)' = PaidOf(j) + (IF p.invoice = j THEN p.amount ELSE 0)
         /\ CashTaken \in Int /\ CashTaken' = CashTaken + p.cash
         /\ ClearedInBase \in Int /\ ClearedInBase' = ClearedInBase + (IF fx THEN p.booked ELSE 0)
         /\ ClearedInForeign \in Int /\ ClearedInForeign' = ClearedInForeign + (IF fx THEN p.amount ELSE 0)
         /\ Realized \in Int /\ Realized' = Realized + (IF fx THEN p.booked - p.cash ELSE 0)
  BY <1>1, <1>3, <1>6, <1>8, PaymentAppended
<1>10. PaidMoves(i, amount, s)
  <2>1. \A n \in DOMAIN payments' :
          /\ invoice[payments'[n].invoice].status # "none"
          /\ invoice[payments'[n].invoice].currency = Base => payments'[n].cash = payments'[n].amount
    BY <1>1, <1>2, <1>3, PaymentRowsExist
  <2>2. \A c \in Currencies :
          balances'["receivable"][c] = balances["receivable"][c] - (IF c = invoice[i].currency THEN amount ELSE 0)
    <3>1. \A c \in Currencies : balances["receivable"][c] \in Int
      BY <1>6, ReceivablesTyped DEF Accounts
    <3>2. \A c \in Currencies :
            balances'["receivable"][c] = balances["receivable"][c] + (IF c = Base THEN -amount ELSE 0)
      BY <1>4, <1>7 DEF Accounts
    <3> QED
      BY <1>1, <1>2, <3>1, <3>2
  <2>3. \A j : PaidOf(j) \in Int /\ PaidOf(j)' = PaidOf(j) + (IF i = j THEN amount ELSE 0)
    BY <1>3, <1>9
  <2> QED
    BY <1>1, <1>2, <1>5, <1>7, <1>9, <2>1, <2>2, <2>3 DEF PaidMoves
<1>11. SettlementsAreWhole'
  <2>1. \A a \in Accounts, d \in Currencies : balances[a][d] \in Int
    BY <1>6, ReceivablesTyped
  <2>2. invoice[p.invoice].currency # Foreign
    BY <1>1, <1>3, ReceivablesAssumption
  <2>3. /\ CashTaken' = CashTaken + amount /\ ClearedInBase' = ClearedInBase
        /\ ClearedInForeign' = ClearedInForeign /\ Realized' = Realized
    BY <1>3, <1>9, <2>2
  <2>4. /\ balances'["cash"][Base] = balances["cash"][Base] + amount
        /\ balances'["receivable"][Base] = balances["receivable"][Base] - amount
        /\ balances'["revenue"][Base] = balances["revenue"][Base]
        /\ balances'["tax"][Base] = balances["tax"][Base]
        /\ balances'["clearing"][Base] = balances["clearing"][Base]
        /\ balances'["gain"][Base] = balances["gain"][Base]
        /\ \A a \in Accounts : balances'[a][Foreign] = balances[a][Foreign]
    BY <1>2, <1>4, <1>6, <1>7, <2>1, ReceivablesAssumption DEF Accounts
  <2>5. SettlementsAreWhole
    BY DEF ReceivablesInv
  <2>6. Balanced'
    BY <1>2, <2>1, <2>4, <2>5 DEF SettlementsAreWhole, Balanced, Accounts, Currencies
  <2> QED
    BY <2>3, <2>4, <2>5, <2>6 DEF SettlementsAreWhole, Accounts
<1> QED
  BY <1>2, <1>5, <1>10, <1>11, PaidStep DEF ReceivablesInv

\* A rate is a numerator over a positive denominator.
LEMMA RateIs ==
  ASSUME NEW r \in Rates \cup {<<1, 1>>}
  PROVE  r \in Nat \X (Nat \ {0}) /\ r[1] \in Nat /\ r[2] \in Nat \ {0}
  BY ReceivablesAssumption DEF Rates

\* What an amount comes to in the organization's currency.
LEMMA ToBaseInt ==
  ASSUME NEW a \in Int, NEW r \in Nat \X (Nat \ {0})
  PROVE  ToBase(a, r) \in Int
<1>1. r[1] \in Nat /\ r[2] \in Nat \ {0}
  OBVIOUS
<1>2. PICK n \in Int : n = a * r[1]
  BY <1>1
<1>3. n \div r[2] \in Int
  BY <1>1, <1>2, Quotient
<1>4. ToBase(a, r) = n \div r[2] + (IF 2 * (n % r[2]) >= r[2] THEN 1 ELSE 0)
  BY <1>2 DEF ToBase
<1> QED
  BY <1>3, <1>4

\* A payment in a foreign currency: two entries that meet in the clearing account.
LEMMA RecordForeignPaymentStep ==
  ASSUME ReceivablesInv, NEW i \in Invoices, NEW amount \in Cash, NEW rate \in Rates,
         RecordForeignPayment(i, amount, rate)
  PROVE  ReceivablesInv'
<1> DEFINE cash == ToBase(amount, rate)
           booked == ToBase(amount, invoice[i].rate)
           p == [invoice |-> i, amount |-> amount, cash |-> cash, booked |-> booked, reversed |-> FALSE]
           e == [cash |-> cash, clearing |-> -booked, gain |-> booked - cash]
           f == [clearing |-> amount, receivable |-> -amount]
           s == IF invoice[i].paid + amount >= invoice[i].total THEN "paid" ELSE invoice[i].status
<1>1. /\ CanPay(i, amount) /\ invoice[i].currency = Foreign /\ payments' = Append(payments, p)
      /\ balances' = PostBoth(e, f) /\ credits' = credits
      /\ invoice' = [invoice EXCEPT ![i].paid = @ + amount, ![i].status = s]
  BY DEF RecordForeignPayment
<1>2. /\ amount \in Nat \ {0} /\ amount \in Int
      /\ invoice[i].status \in {"sent", "paid"} /\ invoice[i].currency \in Currencies
      /\ invoice[i].total \in Int /\ invoice[i].paid \in Int /\ invoice[i].credited \in Nat
      /\ invoice[i].paid + amount + invoice[i].credited <= invoice[i].total
  BY <1>1, Payable
<1>3. cash \in Int /\ booked \in Int
  <2>1. invoice[i].rate \in Nat \X (Nat \ {0})
    BY DEF ReceivablesInv, ReceivablesShapes, InvoiceRows
  <2>2. rate \in Nat \X (Nat \ {0})
    BY RateIs
  <2> QED
    BY <1>2, <2>1, <2>2, ToBaseInt
<1> HIDE DEF cash, booked
<1>4. /\ p \in PaymentRows /\ p.invoice = i /\ p.amount = amount /\ p.cash = cash /\ p.booked = booked
      /\ ~p.reversed
  BY <1>3, <1>2 DEF PaymentRows
<1>5. /\ Debit(e, "cash") = cash /\ Debit(e, "receivable") = 0 /\ Debit(e, "revenue") = 0
      /\ Debit(e, "tax") = 0 /\ Debit(e, "clearing") = -booked /\ Debit(e, "gain") = booked - cash
      /\ Debit(f, "cash") = 0 /\ Debit(f, "receivable") = -amount /\ Debit(f, "revenue") = 0
      /\ Debit(f, "tax") = 0 /\ Debit(f, "clearing") = amount /\ Debit(f, "gain") = 0
  BY DEF Debit
<1>6. s \in {"sent", "paid"} /\ (s = "paid" => invoice[i].paid + amount + invoice[i].credited >= invoice[i].total)
  <2>1. invoice[i].status = "paid" => Outstanding(i) = 0
    BY DEF ReceivablesInv, PaidIsSettled
  <2>2. invoice[i].status # "paid"
    BY <1>1, <1>2, <2>1 DEF CanPay
  <2> QED
    BY <1>2, <2>2
<1> HIDE DEF p, e, f, s
<1>7. /\ ReceivablesShapes /\ Base \in Currencies /\ Foreign \in Currencies
      /\ \A a \in Accounts : Debit(e, a) \in Int /\ Debit(f, a) \in Int
  BY <1>3, <1>2, <1>5 DEF ReceivablesInv, Currencies, Accounts
<1>8. /\ balances' \in [Accounts -> [Currencies -> Int]]
      /\ \A a \in Accounts, d \in Currencies :
           balances'[a][d] = balances[a][d] + (IF d = Base THEN Debit(e, a) ELSE Debit(f, a))
  BY <1>1, <1>7, PostBothIs
<1>9. \A j \in Invoices : invoice'[j].currency = invoice[j].currency
  BY <1>1, <1>7 DEF ReceivablesShapes, InvoiceRows
<1>10. LET fx == invoice[p.invoice].currency = Foreign
      IN /\ payments' \in Seq(PaymentRows)
         /\ \A j : PaidOf(j) \in Int /\ PaidOf(j)' = PaidOf(j) + (IF p.invoice = j THEN p.amount ELSE 0)
         /\ CashTaken \in Int /\ CashTaken' = CashTaken + p.cash
         /\ ClearedInBase \in Int /\ ClearedInBase' = ClearedInBase + (IF fx THEN p.booked ELSE 0)
         /\ ClearedInForeign \in Int /\ ClearedInForeign' = ClearedInForeign + (IF fx THEN p.amount ELSE 0)
         /\ Realized \in Int /\ Realized' = Realized + (IF fx THEN p.booked - p.cash ELSE 0)
  BY <1>1, <1>4, <1>7, <1>9, PaymentAppended
<1>11. PaidMoves(i, amount, s)
  <2>1. \A n \in DOMAIN payments' :
          /\ invoice[payments'[n].invoice].status # "none"
          /\ invoice[payments'[n].invoice].currency = Base => payments'[n].cash = payments'[n].amount
    BY <1>1, <1>2, <1>4, PaymentRowsExist, ReceivablesAssumption
  <2>2. \A c \in Currencies :
          balances'["receivable"][c] = balances["receivable"][c] - (IF c = invoice[i].currency THEN amount ELSE 0)
    <3>1. \A c \in Currencies : balances["receivable"][c] \in Int
      BY <1>7, ReceivablesTyped DEF Accounts
    <3>2. \A c \in Currencies :
            balances'["receivable"][c] = balances["receivable"][c] + (IF c = Base THEN 0 ELSE -amount)
      BY <1>5, <1>8 DEF Accounts
    <3>3. \A c \in Currencies : c = Foreign <=> c # Base
      BY ReceivablesAssumption DEF Currencies
    <3> QED
      BY <1>1, <1>2, <3>1, <3>2, <3>3
  <2>3. \A j : PaidOf(j) \in Int /\ PaidOf(j)' = PaidOf(j) + (IF i = j THEN amount ELSE 0)
    BY <1>4, <1>10
  <2> QED
    BY <1>1, <1>2, <1>6, <1>8, <1>10, <2>1, <2>2, <2>3 DEF PaidMoves
<1>12. SettlementsAreWhole'
  <2>1. \A a \in Accounts, d \in Currencies : balances[a][d] \in Int
    BY <1>7, ReceivablesTyped
  <2>3. /\ CashTaken' = CashTaken + cash /\ ClearedInBase' = ClearedInBase + booked
        /\ ClearedInForeign' = ClearedInForeign + amount /\ Realized' = Realized + (booked - cash)
    BY <1>1, <1>4, <1>10
  <2>4. /\ balances'["cash"][Base] = balances["cash"][Base] + cash
        /\ balances'["receivable"][Base] = balances["receivable"][Base]
        /\ balances'["revenue"][Base] = balances["revenue"][Base]
        /\ balances'["tax"][Base] = balances["tax"][Base]
        /\ balances'["clearing"][Base] = balances["clearing"][Base] - booked
        /\ balances'["gain"][Base] = balances["gain"][Base] + (booked - cash)
    BY <1>3, <1>5, <1>7, <1>8, <2>1 DEF Accounts
  <2>5. /\ balances'["cash"][Foreign] = balances["cash"][Foreign]
        /\ balances'["receivable"][Foreign] = balances["receivable"][Foreign] - amount
        /\ balances'["revenue"][Foreign] = balances["revenue"][Foreign]
        /\ balances'["tax"][Foreign] = balances["tax"][Foreign]
        /\ balances'["clearing"][Foreign] = balances["clearing"][Foreign] + amount
        /\ balances'["gain"][Foreign] = balances["gain"][Foreign]
    BY <1>2, <1>5, <1>7, <1>8, <2>1, ReceivablesAssumption DEF Accounts
  <2>6. SettlementsAreWhole
    BY DEF ReceivablesInv
  <2>7. Balanced'
    BY <1>3, <1>2, <2>1, <2>4, <2>5, <2>6 DEF SettlementsAreWhole, Balanced, Accounts, Currencies
  <2>8. balances'["clearing"][Base] = - ClearedInBase'
    BY <1>3, <1>10, <2>3, <2>4, <2>6 DEF SettlementsAreWhole
  <2> QED
    BY <2>3, <2>4, <2>5, <2>6, <2>7, <2>8 DEF SettlementsAreWhole
<1> QED
  BY <1>2, <1>6, <1>11, <1>12, PaidStep DEF ReceivablesInv

\* A reversal takes back every entry of a payment.
LEMMA ReversePaymentStep ==
  ASSUME ReceivablesInv, NEW n \in DOMAIN payments, ReversePayment(n)
  PROVE  ReceivablesInv'
<1>0. PICK i \in Invoices, amount \in Nat \ {0}, cash \in Int, booked \in Int :
        /\ i = payments[n].invoice /\ amount = payments[n].amount
        /\ cash = payments[n].cash /\ booked = payments[n].booked
  BY ReceivablesTyped DEF ReceivablesInv
<1> DEFINE s == ReversedStatus(i, invoice[i].paid - amount)
           e0 == [cash |-> -amount, receivable |-> amount]
           e == [cash |-> -cash, clearing |-> booked, gain |-> cash - booked]
           f == [clearing |-> -amount, receivable |-> amount]
<1>1. /\ Live(n) /\ payments' = [payments EXCEPT ![n].reversed = TRUE] /\ credits' = credits
      /\ balances' = (IF invoice[i].currency = Base THEN Post(Base, e0) ELSE PostBoth(e, f))
      /\ invoice' = [invoice EXCEPT ![i].paid = @ - amount, ![i].status = s]
  BY <1>0 DEF ReversePayment, MirrorEntries, Live
<1>2. /\ invoice[i].status # "none" /\ invoice[i].currency \in Currencies
      /\ invoice[i].total \in Int /\ invoice[i].paid \in Int /\ invoice[i].credited \in Int
      /\ invoice[i].paid + invoice[i].credited <= invoice[i].total
      /\ invoice[i].currency = Base => cash = amount
  <2>1. ReceivablesShapes /\ RowsAreOfInvoices /\ ReceivableIsOutstanding
    BY DEF ReceivablesInv
  <2>2. /\ invoice[i].status # "none"
        /\ invoice[i].currency = Base => cash = amount
    BY <1>0, <2>1 DEF RowsAreOfInvoices
  <2> QED
    BY <2>1, <2>2, ReceivablesTyped DEF ReceivableIsOutstanding
<1>3. PICK d \in Int : d = -amount
  OBVIOUS
<1>4. /\ s \in {"sent", "paid"}
      /\ s = "paid" => invoice[i].paid + d + invoice[i].credited >= invoice[i].total
  <2>1. invoice[i].status \in {"sent", "paid"}
    BY <1>2, ReceivablesTyped DEF ReceivablesInv
  <2> QED
    BY <1>2, <1>3, <2>1 DEF ReversedStatus
<1>5. invoice' = [invoice EXCEPT ![i].paid = @ + d, ![i].status = s]
  <2>1. invoice[i].paid - amount = invoice[i].paid + d
    BY <1>2, <1>3
  <2> QED
    BY <1>1, <2>1
<1>6. /\ Debit(e, "cash") = -cash /\ Debit(e, "receivable") = 0 /\ Debit(e, "revenue") = 0
      /\ Debit(e, "tax") = 0 /\ Debit(e, "clearing") = booked /\ Debit(e, "gain") = cash - booked
      /\ Debit(f, "cash") = 0 /\ Debit(f, "receivable") = amount /\ Debit(f, "revenue") = 0
      /\ Debit(f, "tax") = 0 /\ Debit(f, "clearing") = -amount /\ Debit(f, "gain") = 0
      /\ Debit(e0, "cash") = -amount /\ Debit(e0, "receivable") = amount /\ Debit(e0, "revenue") = 0
      /\ Debit(e0, "tax") = 0 /\ Debit(e0, "clearing") = 0 /\ Debit(e0, "gain") = 0
  BY DEF Debit
<1> HIDE DEF e, e0, f, s
<1>7. /\ ReceivablesShapes /\ Base \in Currencies /\ Foreign \in Currencies /\ Base # Foreign
      /\ \A c \in Currencies : c = Foreign <=> c # Base
      /\ \A a \in Accounts : Debit(e, a) \in Int /\ Debit(f, a) \in Int /\ Debit(e0, a) \in Int
  BY <1>6, ReceivablesAssumption DEF ReceivablesInv, Currencies, Accounts
<1>8. \A a \in Accounts, c \in Currencies : balances[a][c] \in Int
  BY <1>7, ReceivablesTyped
<1>9. \A j \in Invoices : invoice'[j].currency = invoice[j].currency
  BY <1>1, <1>7 DEF ReceivablesShapes, InvoiceRows
<1>10. LET p == payments[n]
           fx == invoice[p.invoice].currency = Foreign
       IN /\ payments' \in Seq(PaymentRows) /\ DOMAIN payments' = DOMAIN payments
          /\ \A m \in DOMAIN payments :
               /\ payments'[m].invoice = payments[m].invoice /\ payments'[m].cash = payments[m].cash
               /\ payments'[m].amount = payments[m].amount
          /\ \A j : PaidOf(j) \in Int /\ PaidOf(j)' = PaidOf(j) - (IF p.invoice = j THEN p.amount ELSE 0)
          /\ CashTaken \in Int /\ CashTaken' = CashTaken - p.cash
          /\ ClearedInBase \in Int /\ ClearedInBase' = ClearedInBase - (IF fx THEN p.booked ELSE 0)
          /\ ClearedInForeign \in Int /\ ClearedInForeign' = ClearedInForeign - (IF fx THEN p.amount ELSE 0)
          /\ Realized \in Int /\ Realized' = Realized - (IF fx THEN p.booked - p.cash ELSE 0)
  BY <1>1, <1>7, <1>9, PaymentUndone
<1>11. LET fx == invoice[i].currency = Foreign
       IN /\ payments' \in Seq(PaymentRows) /\ DOMAIN payments' = DOMAIN payments
          /\ \A m \in DOMAIN payments :
               /\ payments'[m].invoice = payments[m].invoice /\ payments'[m].cash = payments[m].cash
               /\ payments'[m].amount = payments[m].amount
          /\ \A j : PaidOf(j) \in Int /\ PaidOf(j)' = PaidOf(j) - (IF i = j THEN amount ELSE 0)
          /\ CashTaken \in Int /\ CashTaken' = CashTaken - cash
          /\ ClearedInBase \in Int /\ ClearedInBase' = ClearedInBase - (IF fx THEN booked ELSE 0)
          /\ ClearedInForeign \in Int /\ ClearedInForeign' = ClearedInForeign - (IF fx THEN amount ELSE 0)
          /\ Realized \in Int /\ Realized' = Realized - (IF fx THEN booked - cash ELSE 0)
  BY <1>0, <1>10
<1>12. /\ balances' \in [Accounts -> [Currencies -> Int]]
       /\ \A c \in Currencies :
            balances'["receivable"][c] = balances["receivable"][c] + (IF c = invoice[i].currency THEN amount ELSE 0)
       /\ balances'["cash"][Base] = balances["cash"][Base] - cash
       /\ balances'["cash"][Foreign] = balances["cash"][Foreign]
       /\ \A c \in Currencies : /\ balances'["revenue"][c] = balances["revenue"][c]
                                /\ balances'["tax"][c] = balances["tax"][c]
       /\ balances'["clearing"][Base] = balances["clearing"][Base] + (IF invoice[i].currency = Foreign THEN booked ELSE 0)
       /\ balances'["clearing"][Foreign] = balances["clearing"][Foreign] - (IF invoice[i].currency = Foreign THEN amount ELSE 0)
       /\ balances'["gain"][Base] = balances["gain"][Base] - (IF invoice[i].currency = Foreign THEN booked - cash ELSE 0)
       /\ balances'["gain"][Foreign] = balances["gain"][Foreign]
  <2>1. CASE invoice[i].currency = Base
    <3>1. /\ balances' \in [Accounts -> [Currencies -> Int]]
          /\ \A a \in Accounts, c \in Currencies :
               balances'[a][c] = balances[a][c] + (IF c = Base THEN Debit(e0, a) ELSE 0)
      BY <1>1, <1>7, <2>1, PostIs
    <3>2. invoice[i].currency # Foreign /\ cash = amount
      BY <1>2, <1>7, <2>1
    <3> QED
      BY <1>6, <1>7, <1>8, <2>1, <3>1, <3>2 DEF Accounts
  <2>2. CASE invoice[i].currency # Base
    <3>1. /\ balances' \in [Accounts -> [Currencies -> Int]]
          /\ \A a \in Accounts, c \in Currencies :
               balances'[a][c] = balances[a][c] + (IF c = Base THEN Debit(e, a) ELSE Debit(f, a))
      BY <1>1, <1>7, <2>2, PostBothIs
    <3>2. invoice[i].currency = Foreign
      BY <1>2, <1>7, <2>2
    <3> QED
      BY <1>6, <1>7, <1>8, <3>1, <3>2 DEF Accounts
  <2> QED
    BY <2>1, <2>2
<1>13. PaidMoves(i, d, s)
  <2>1. \A m \in DOMAIN payments' :
          /\ invoice[payments'[m].invoice].status # "none"
          /\ invoice[payments'[m].invoice].currency = Base => payments'[m].cash = payments'[m].amount
    <3>1. \A m \in DOMAIN payments :
            /\ invoice[payments[m].invoice].status # "none"
            /\ invoice[payments[m].invoice].currency = Base => payments[m].cash = payments[m].amount
      BY DEF ReceivablesInv, RowsAreOfInvoices
    <3> QED
      BY <1>11, <3>1
  <2>2. ASSUME NEW c \in Currencies
        PROVE  balances'["receivable"][c] = balances["receivable"][c] - (IF c = invoice[i].currency THEN d ELSE 0)
    <3>1. PICK b \in Int : b = balances["receivable"][c]
      BY <1>8 DEF Accounts
    <3>2. balances'["receivable"][c] = b + (IF c = invoice[i].currency THEN amount ELSE 0)
      BY <1>12, <3>1
    <3>3. CASE c = invoice[i].currency
      BY <1>3, <3>1, <3>2, <3>3
    <3>4. CASE c # invoice[i].currency
      BY <3>1, <3>2, <3>4
    <3> QED
      BY <3>3, <3>4
  <2>3. ASSUME NEW j
        PROVE  PaidOf(j) \in Int /\ PaidOf(j)' = PaidOf(j) + (IF i = j THEN d ELSE 0)
    <3>1. PaidOf(j) \in Int /\ PaidOf(j)' = PaidOf(j) - (IF i = j THEN amount ELSE 0)
      BY <1>11
    <3>2. CASE i = j
      BY <1>3, <3>1, <3>2
    <3>3. CASE i # j
      BY <3>1, <3>3
    <3> QED
      BY <3>1, <3>2, <3>3
  <2>4. invoice[i].paid + d + invoice[i].credited <= invoice[i].total
    BY <1>2, <1>3
  <2>5. /\ invoice' = [invoice EXCEPT ![i].paid = @ + d, ![i].status = s]
        /\ payments' \in Seq(PaymentRows) /\ credits' = credits
        /\ balances' \in [Accounts -> [Currencies -> Int]]
    BY <1>1, <1>5, <1>11, <1>12
  <2>6. /\ invoice[i].status # "none"
        /\ s = "paid" => invoice[i].paid + d + invoice[i].credited >= invoice[i].total
    BY <1>2, <1>4
  <2> QED
    BY ONLY <2>1, <2>2, <2>3, <2>4, <2>5, <2>6 DEF PaidMoves
<1>14. SettlementsAreWhole'
  <2>1. SettlementsAreWhole
    BY DEF ReceivablesInv
  <2>2. /\ balances["cash"][Base] \in Int /\ balances["receivable"][Base] \in Int /\ balances["revenue"][Base] \in Int
        /\ balances["tax"][Base] \in Int /\ balances["clearing"][Base] \in Int /\ balances["gain"][Base] \in Int
        /\ balances["cash"][Foreign] \in Int /\ balances["receivable"][Foreign] \in Int
        /\ balances["revenue"][Foreign] \in Int /\ balances["tax"][Foreign] \in Int
        /\ balances["clearing"][Foreign] \in Int /\ balances["gain"][Foreign] \in Int
    BY <1>7, <1>8 DEF Accounts
  <2>3. Balanced'
    <3>1. CASE invoice[i].currency = Base
      <4>1. invoice[i].currency # Foreign /\ cash = amount
        BY <1>2, <1>7, <3>1
      <4> QED
        BY <1>7, <1>12, <2>1, <2>2, <3>1, <4>1 DEF SettlementsAreWhole, Balanced, Currencies
    <3>2. CASE invoice[i].currency = Foreign
      BY <1>7, <1>12, <2>1, <2>2, <3>2 DEF SettlementsAreWhole, Balanced, Currencies
    <3> QED
      BY <1>2, <1>7, <3>1, <3>2
  <2>4. /\ balances'["cash"][Base] = CashTaken' /\ balances'["gain"][Base] = Realized'
        /\ balances'["clearing"][Foreign] = ClearedInForeign'
    BY <1>11, <1>12, <2>1 DEF SettlementsAreWhole
  <2>5. balances'["clearing"][Base] = - ClearedInBase'
    <3>1. (IF invoice[i].currency = Foreign THEN booked ELSE 0) \in Int
      OBVIOUS
    <3> QED
      BY <1>11, <1>12, <2>1, <3>1 DEF SettlementsAreWhole
  <2> QED
    BY <2>3, <2>4, <2>5 DEF SettlementsAreWhole
<1> QED
  BY <1>4, <1>13, <1>14, PaidStep DEF ReceivablesInv

\* A line of an invoice is in whole units.
LEMMA LineInt ==
  ASSUME NEW q \in Qtys, NEW p \in UnitPrices, NEW t \in TaxRates, NEW inc \in BOOLEAN
  PROVE  Line(q, p, t, inc).net \in Int /\ Line(q, p, t, inc).tax \in Int
<1>1. q \in Nat /\ p \in Nat /\ t \in Nat
  BY ReceivablesAssumption
<1>2. PICK n \in Int : n = q * p
  BY <1>1
<1>3. RoundedQuotient(q * p, 1000) \in Int
  BY <1>2, Quotient DEF RoundedQuotient
<1>4. PICK a \in Int : a = RoundedQuotient(q * p, 1000)
  BY <1>3
<1>5. (a * 20000 + 10000 + t) \div (2 * (10000 + t)) \in Int
  <2>1. a * 20000 + 10000 + t \in Int /\ 2 * (10000 + t) \in Nat \ {0}
    BY <1>1
  <2> QED
    BY <2>1, Quotient
<1>6. (a * t + 5000) \div 10000 \in Int
  <2>1. a * t + 5000 \in Int
    BY <1>1
  <2> QED
    BY <2>1, Quotient
<1> QED
  BY <1>4, <1>5, <1>6 DEF Line

\* An invoice is receivable from its creation, when nothing is paid or credited.
LEMMA CreateInvoiceStep ==
  ASSUME ReceivablesInv, NEW i \in Invoices, NEW cur \in Currencies, NEW rate \in Rates \cup {<<1, 1>>},
         NEW line, line.net \in Int, line.tax \in Int, CreateInvoice(i, cur, rate, line)
  PROVE  ReceivablesInv'
<1> DEFINE total == line.net + line.tax
           r == [NoInvoice EXCEPT !.status = "sent", !.currency = cur, !.rate = rate,
                                  !.net = line.net, !.tax = line.tax, !.total = total]
           e == [receivable |-> total, revenue |-> -line.net, tax |-> -line.tax]
<1>0. /\ ReceivablesShapes /\ RowsAreOfInvoices /\ CreditsShare /\ ReceivableIsOutstanding /\ PaidIsSettled
      /\ SettlementsAreWhole
  BY DEF ReceivablesInv
<1>1. /\ invoice[i].status = "none" /\ total > 0 /\ total \in Int
      /\ invoice' = [invoice EXCEPT ![i] = r] /\ balances' = Post(cur, e)
      /\ payments' = payments /\ credits' = credits
  BY DEF CreateInvoice
<1>2. /\ r \in InvoiceRows /\ r.status = "sent" /\ r.currency = cur /\ r.net = line.net /\ r.tax = line.tax
      /\ r.total = total /\ r.paid = 0 /\ r.credited = 0
  <2>1. rate \in Nat \X (Nat \ {0})
    BY RateIs
  <2>2. /\ line.net + line.tax \in Int /\ NoInvoice \in InvoiceRows
        /\ NoInvoice.paid = 0 /\ NoInvoice.credited = 0
    BY <1>1 DEF NoInvoice, InvoiceRows, Currencies
  <2>3. DOMAIN NoInvoice = {"status", "currency", "rate", "net", "tax", "total", "paid", "credited"}
    BY DEF NoInvoice
  <2>4. r \in InvoiceRows
    BY <2>1, <2>2 DEF InvoiceRows
  <2> QED
    BY <2>2, <2>3, <2>4
<1>3. /\ Debit(e, "cash") = 0 /\ Debit(e, "receivable") = total /\ Debit(e, "revenue") = -line.net
      /\ Debit(e, "tax") = -line.tax /\ Debit(e, "clearing") = 0 /\ Debit(e, "gain") = 0
  BY DEF Debit
<1>4. total = line.net + line.tax
  OBVIOUS
<1> HIDE DEF total, r, e
<1>5. /\ invoice' \in [Invoices -> InvoiceRows] /\ invoice'[i] = r
      /\ \A j \in Invoices : j = i \/ invoice'[j] = invoice[j]
  BY <1>0, <1>1, <1>2 DEF ReceivablesShapes
<1>6. /\ \A a \in Accounts : Debit(e, a) \in Int
  BY <1>1, <1>3 DEF Accounts
<1>7. /\ balances' \in [Accounts -> [Currencies -> Int]]
      /\ \A a \in Accounts, c \in Currencies :
           balances'[a][c] = balances[a][c] + (IF c = cur THEN Debit(e, a) ELSE 0)
  BY <1>0, <1>1, <1>6, PostIs
<1>8. ReceivablesShapes'
  BY <1>0, <1>1, <1>5, <1>7 DEF ReceivablesShapes
<1>9. \* no row is of this invoice yet
      /\ \A n \in DOMAIN payments : payments[n].invoice \in Invoices /\ payments[n].invoice # i
      /\ \A n \in DOMAIN credits : credits[n].invoice \in Invoices /\ credits[n].invoice # i
      /\ invoice[i] = NoInvoice
  BY <1>0, <1>1, ReceivablesTyped DEF RowsAreOfInvoices
<1>10. /\ \A n \in DOMAIN payments : invoice'[payments[n].invoice] = invoice[payments[n].invoice]
       /\ \A n \in DOMAIN credits : invoice'[credits[n].invoice] = invoice[credits[n].invoice]
  BY <1>5, <1>9
<1>11. RowsAreOfInvoices'
  <2>1. ASSUME NEW j \in Invoices
        PROVE  IF invoice'[j].status = "none" THEN invoice'[j] = NoInvoice
               ELSE invoice'[j].total = invoice'[j].net + invoice'[j].tax /\ invoice'[j].total > 0
    <3>1. CASE j = i
      BY <1>1, <1>2, <1>4, <1>5, <3>1
    <3>2. CASE j # i
      BY <1>0, <1>5, <3>2 DEF RowsAreOfInvoices
    <3> QED
      BY <3>1, <3>2
  <2> QED
    BY <1>0, <1>1, <1>10, <2>1 DEF RowsAreOfInvoices
<1>12. /\ \A j : PaidOf(j)' = PaidOf(j)
       /\ CashTaken' = CashTaken /\ ClearedInBase' = ClearedInBase
       /\ ClearedInForeign' = ClearedInForeign /\ Realized' = Realized
  BY <1>1, <1>10, PaymentsKept
<1>13. \A j : CreditedOf(j)' = CreditedOf(j) /\ RevenueTaken(j)' = RevenueTaken(j) /\ NotesOf(j)' = NotesOf(j)
  BY <1>1 DEF CreditedOf, RevenueTaken, NotesOf
<1>14. /\ NoInvoice.status = "none" /\ NoInvoice.currency = Base /\ NoInvoice.total = 0 /\ NoInvoice.net = 0
       /\ NoInvoice.paid = 0 /\ NoInvoice.credited = 0
  BY DEF NoInvoice
<1>15. RevenueTaken(i) = 0 /\ Cardinality(NotesOf(i)) = 0
  <2> DEFINE g == [n \in DOMAIN credits |-> IF credits[n].invoice = i THEN credits[n].revenue ELSE 0]
  <2>1. \A n \in DOMAIN credits : g[n] = 0 /\ g[n] \in Int
    BY <1>9
  <2>2. RevenueTaken(i) = SumFunctionOnSet(g, DOMAIN credits)
    BY DEF RevenueTaken, SumFunction
  <2> HIDE DEF g
  <2>3. IsFiniteSet(DOMAIN credits) /\ {} \in SUBSET DOMAIN credits
    BY <1>0, ReceivablesTyped
  <2>4. SumFunctionOnSet(g, DOMAIN credits) = SumFunctionOnSet(g, {})
    BY <2>1, <2>3, SumWhere
  <2>5. NotesOf(i) = {}
    BY <1>9 DEF NotesOf
  <2> QED
    BY <2>2, <2>4, <2>5, SumEmpty, FS_EmptySet
<1>16. CreditsShare'
  <2>1. ASSUME NEW j \in Invoices
        PROVE  LET taken == invoice'[j].total * RevenueTaken(j)'
                   share == invoice'[j].credited * invoice'[j].net
                   round == invoice'[j].total * Cardinality(NotesOf(j))'
               IN /\ invoice'[j].credited = CreditedOf(j)'
                  /\ 2 * (taken - share) <= round /\ 2 * (share - taken) <= round
    <3>1. CASE j = i
      <4>1. CreditedOf(i)' = 0
        BY <1>0, <1>9, <1>13, <1>14 DEF CreditsShare
      <4>2. total * 0 = 0 /\ 0 * line.net = 0
        BY <1>1
      <4> QED
        BY <1>2, <1>5, <1>13, <1>15, <3>1, <4>1, <4>2
    <3>2. CASE j # i
      BY <1>0, <1>5, <1>13, <3>2 DEF CreditsShare
    <3> QED
      BY <3>1, <3>2
  <2> QED
    BY <2>1 DEF CreditsShare
<1>17. Outstanding(i) = 0 /\ Outstanding(i)' = total
  BY <1>1, <1>2, <1>5, <1>9, <1>14 DEF Outstanding
<1>18. \A a \in Accounts, c \in Currencies : balances[a][c] \in Int
  BY <1>0, ReceivablesTyped
<1>19. ReceivableIsOutstanding'
  <2>1. ASSUME NEW c \in Currencies PROVE balances'["receivable"][c] = AgingTotal(c)'
    <3>1. AgingTotal(c) \in Int /\ AgingTotal(c)' = AgingTotal(c) + (Aged(i, c)' - Aged(i, c))
      BY <1>0, <1>5, <1>8, AgingMoves
    <3>2. Aged(i, c)' - Aged(i, c) = (IF c = cur THEN total ELSE 0)
      BY <1>1, <1>2, <1>5, <1>17 DEF Aged
    <3>3. balances["receivable"][c] = AgingTotal(c)
      BY <1>0 DEF ReceivableIsOutstanding
    <3>4. balances'["receivable"][c] = balances["receivable"][c] + (IF c = cur THEN total ELSE 0)
      BY <1>3, <1>7 DEF Accounts
    <3> QED
      BY <3>1, <3>2, <3>3, <3>4
  <2>2. ASSUME NEW j \in Invoices
        PROVE  invoice'[j].paid + invoice'[j].credited <= invoice'[j].total /\ invoice'[j].paid = PaidOf(j)'
    <3>1. CASE j = i
      <4>1. PaidOf(i) = 0
        BY <1>0, <1>9, <1>14 DEF ReceivableIsOutstanding
      <4> QED
        BY <1>1, <1>2, <1>5, <1>12, <3>1, <4>1
    <3>2. CASE j # i
      BY <1>0, <1>5, <1>12, <3>2 DEF ReceivableIsOutstanding
    <3> QED
      BY <3>1, <3>2
  <2> QED
    BY <2>1, <2>2 DEF ReceivableIsOutstanding
<1>20. PaidIsSettled'
  BY <1>0, <1>2, <1>5 DEF PaidIsSettled, Outstanding
<1>21. SettlementsAreWhole'
  <2>1. ASSUME NEW c \in Currencies
        PROVE  /\ balances'["cash"][c] = balances["cash"][c]
               /\ balances'["receivable"][c] = balances["receivable"][c] + (IF c = cur THEN total ELSE 0)
               /\ balances'["revenue"][c] = balances["revenue"][c] - (IF c = cur THEN line.net ELSE 0)
               /\ balances'["tax"][c] = balances["tax"][c] - (IF c = cur THEN line.tax ELSE 0)
               /\ balances'["clearing"][c] = balances["clearing"][c]
               /\ balances'["gain"][c] = balances["gain"][c]
    BY <1>1, <1>3, <1>7, <1>18 DEF Accounts
  <2>2. Balanced'
    <3>1. ASSUME NEW c \in Currencies
          PROVE  balances'["cash"][c] + balances'["receivable"][c] + balances'["revenue"][c]
                   + balances'["tax"][c] + balances'["clearing"][c] + balances'["gain"][c] = 0
      <4>1. balances["cash"][c] + balances["receivable"][c] + balances["revenue"][c]
              + balances["tax"][c] + balances["clearing"][c] + balances["gain"][c] = 0
        BY <1>0 DEF SettlementsAreWhole, Balanced
      <4>2. /\ balances["cash"][c] \in Int /\ balances["receivable"][c] \in Int /\ balances["revenue"][c] \in Int
            /\ balances["tax"][c] \in Int /\ balances["clearing"][c] \in Int /\ balances["gain"][c] \in Int
        BY <1>18 DEF Accounts
      <4> QED
        BY <1>1, <1>4, <2>1, <4>1, <4>2
    <3> QED
      BY <3>1 DEF Balanced
  <2> QED
    BY <1>0, <1>12, <2>1, <2>2 DEF SettlementsAreWhole, Currencies
<1> QED
  BY <1>8, <1>11, <1>16, <1>19, <1>20, <1>21 DEF ReceivablesInv

\* A further share keeps what is taken near the share of all, a half for each of k.
LEMMA ShareAdds ==
  ASSUME NEW t \in Int, NEW a \in Int, NEW b \in Int, NEW c \in Int, NEW d \in Int, NEW n \in Int, NEW k \in Int,
         2 * (t * a - c * n) <= t * k, 2 * (c * n - t * a) <= t * k,
         2 * (t * b - d * n) <= t, 2 * (d * n - t * b) <= t
  PROVE  /\ 2 * (t * (a + b) - (c + d) * n) <= t * (k + 1)
         /\ 2 * ((c + d) * n - t * (a + b)) <= t * (k + 1)
<1>1. PICK x \in Int, y \in Int, z \in Int, u \in Int, v \in Int :
        x = t * a /\ y = t * b /\ z = c * n /\ u = d * n /\ v = t * k
  OBVIOUS
<1>2. t * (a + b) = x + y /\ (c + d) * n = z + u /\ t * (k + 1) = v + t
  BY <1>1
<1>3. 2 * (x - z) <= v /\ 2 * (z - x) <= v /\ 2 * (y - u) <= t /\ 2 * (u - y) <= t
  BY <1>1
<1> QED
  BY <1>2, <1>3

\* A factor that is positive cancels.
LEMMA ShareCancels ==
  ASSUME NEW t \in Nat \ {0}, NEW a \in Int, NEW n \in Int, NEW k \in Int,
         2 * (t * a - t * n) <= t * k
  PROVE  2 * (a - n) <= k
<1>1. PICK d \in Int : d = 2 * (a - n) - k
  OBVIOUS
<1>2. t * d <= 0
  <2>1. PICK x \in Int, y \in Int, v \in Int : x = t * a /\ y = t * n /\ v = t * k
    OBVIOUS
  <2>2. t * d = 2 * (x - y) - v
    BY <1>1, <2>1
  <2>3. 2 * (x - y) <= v
    BY <2>1
  <2> QED
    BY <2>2, <2>3
<1>3. ASSUME d >= 1 PROVE t <= t * d
  <2>1. d \in Nat /\ 1 \in Nat /\ t \in Nat
    BY <1>3
  <2>2. t * 1 <= t * d
    BY <1>3, <2>1, ProductMonotone
  <2> QED
    BY <2>2
<1>4. d <= 0
  BY <1>2, <1>3
<1> QED
  BY <1>1, <1>4

\* A credit takes back its share of the revenue and the tax of an invoice.
LEMMA CreditNoteStep ==
  ASSUME ReceivablesInv, NEW i \in Invoices, NEW amount \in Cash, CreditNote(i, amount)
  PROVE  ReceivablesInv'
<1> DEFINE revenue == RevenueShare(i, amount)
           p == [invoice |-> i, amount |-> amount, revenue |-> revenue]
           r == [invoice[i] EXCEPT !.credited = @ + amount]
           e == [revenue |-> revenue, tax |-> amount - revenue, receivable |-> -amount]
           cur == invoice[i].currency
<1>0. /\ ReceivablesShapes /\ RowsAreOfInvoices /\ CreditsShare /\ ReceivableIsOutstanding /\ PaidIsSettled
      /\ SettlementsAreWhole
  BY DEF ReceivablesInv
<1>1. /\ invoice[i].status # "none"
      /\ amount <= invoice[i].total - invoice[i].paid - invoice[i].credited
      /\ invoice' = [invoice EXCEPT ![i] = r] /\ balances' = Post(cur, e)
      /\ payments' = payments /\ credits' = Append(credits, p)
  BY DEF CreditNote
<1>2. /\ amount \in Nat \ {0} /\ amount \in Int /\ cur \in Currencies
      /\ cur = invoice[i].currency /\ invoice[i] \in InvoiceRows /\ invoice[i].status \in {"sent", "paid"}
      /\ invoice[i].net \in Int /\ invoice[i].tax \in Int /\ invoice[i].total \in Nat \ {0}
      /\ invoice[i].paid \in Int /\ invoice[i].credited \in Int
      /\ invoice[i].total = invoice[i].net + invoice[i].tax
  <2>1. /\ invoice[i].total = invoice[i].net + invoice[i].tax /\ invoice[i].total > 0
    BY <1>0, <1>1 DEF RowsAreOfInvoices
  <2>2. /\ invoice[i] \in InvoiceRows /\ invoice[i].status \in {"none", "sent", "paid"}
        /\ cur \in Currencies /\ invoice[i].net \in Int /\ invoice[i].tax \in Int
        /\ invoice[i].total \in Int /\ invoice[i].paid \in Int /\ invoice[i].credited \in Int
    BY <1>0, ReceivablesTyped
  <2>3. amount \in Nat \ {0} /\ amount \in Int
    BY ReceivablesAssumption
  <2>4. invoice[i].total \in Nat \ {0} /\ invoice[i].status # "none"
    BY <1>1, <2>1, <2>2
  <2> QED
    BY <2>1, <2>2, <2>3, <2>4
<1>3. /\ revenue \in Int
      /\ 2 * (invoice[i].total * revenue - amount * invoice[i].net) <= invoice[i].total
      /\ 2 * (amount * invoice[i].net - invoice[i].total * revenue) <= invoice[i].total
  <2>1. invoice[i].total - invoice[i].tax = invoice[i].net
    BY <1>2
  <2>2. PICK t \in Nat \ {0}, a \in Int : t = invoice[i].total /\ a = amount * invoice[i].net
    BY <1>2
  <2>3. revenue = (a + t \div 2) \div t
    BY <2>1, <2>2 DEF RevenueShare
  <2> HIDE DEF revenue
  <2>4. revenue \in Int /\ 2 * (t * revenue - a) <= t /\ 2 * (a - t * revenue) <= t
    BY <2>3, ShareRounds
  <2> QED
    BY <2>2, <2>4
<1> HIDE DEF revenue
<1>4. /\ p \in CreditRows /\ p.invoice = i /\ p.amount = amount /\ p.revenue = revenue
  BY <1>2, <1>3 DEF CreditRows
<1>5. /\ r \in InvoiceRows /\ r.status = invoice[i].status /\ r.currency = cur /\ r.net = invoice[i].net
      /\ r.tax = invoice[i].tax /\ r.total = invoice[i].total /\ r.paid = invoice[i].paid
      /\ r.credited = invoice[i].credited + amount
  <2>1. invoice[i].credited + amount \in Int
    BY <1>2
  <2> QED
    BY <1>2, <2>1 DEF InvoiceRows
<1>6. /\ Debit(e, "cash") = 0 /\ Debit(e, "receivable") = -amount /\ Debit(e, "revenue") = revenue
      /\ Debit(e, "tax") = amount - revenue /\ Debit(e, "clearing") = 0 /\ Debit(e, "gain") = 0
  BY DEF Debit
<1> HIDE DEF p, r, e, cur
<1>7. /\ invoice' \in [Invoices -> InvoiceRows] /\ invoice'[i] = r
      /\ \A j \in Invoices : j = i \/ invoice'[j] = invoice[j]
  BY <1>0, <1>1, <1>5 DEF ReceivablesShapes
<1>8. \A a \in Accounts : Debit(e, a) \in Int
  BY <1>2, <1>3, <1>6 DEF Accounts
<1>9. /\ balances' \in [Accounts -> [Currencies -> Int]]
      /\ \A a \in Accounts, c \in Currencies :
           balances'[a][c] = balances[a][c] + (IF c = cur THEN Debit(e, a) ELSE 0)
  <2>1. /\ Post(cur, e) \in [Accounts -> [Currencies -> Int]]
        /\ \A a \in Accounts, c \in Currencies :
             Post(cur, e)[a][c] = balances[a][c] + (IF c = cur THEN Debit(e, a) ELSE 0)
    BY <1>0, <1>2, <1>8, PostIs
  <2>2. balances' = Post(cur, e)
    BY <1>1
  <2> QED
    BY ONLY <2>1, <2>2
<1>10. /\ credits' \in Seq(CreditRows)
       /\ \A n \in DOMAIN credits' : credits'[n] = p \/ (n \in DOMAIN credits /\ credits'[n] = credits[n])
       /\ \A j : /\ CreditedOf(j)' = CreditedOf(j) + (IF i = j THEN amount ELSE 0)
                 /\ RevenueTaken(j)' = RevenueTaken(j) + (IF i = j THEN revenue ELSE 0)
                 /\ Cardinality(NotesOf(j))' = Cardinality(NotesOf(j)) + (IF i = j THEN 1 ELSE 0)
  BY <1>0, <1>1, <1>4, CreditAppended
<1>11. ReceivablesShapes'
  BY <1>0, <1>1, <1>7, <1>9, <1>10 DEF ReceivablesShapes
<1>12. \A j \in Invoices :
         /\ invoice'[j].net = invoice[j].net /\ invoice'[j].tax = invoice[j].tax
         /\ invoice'[j].total = invoice[j].total /\ invoice'[j].paid = invoice[j].paid
         /\ invoice'[j].currency = invoice[j].currency /\ invoice'[j].status = invoice[j].status
  BY <1>2, <1>5, <1>7
<1>13. RowsAreOfInvoices'
  <2>1. ASSUME NEW j \in Invoices
        PROVE  IF invoice'[j].status = "none" THEN invoice'[j] = NoInvoice
               ELSE invoice'[j].total = invoice'[j].net + invoice'[j].tax /\ invoice'[j].total > 0
    <3>1. IF invoice[j].status = "none" THEN invoice[j] = NoInvoice
          ELSE invoice[j].total = invoice[j].net + invoice[j].tax /\ invoice[j].total > 0
      BY <1>0 DEF RowsAreOfInvoices
    <3>2. invoice[j].status = "none" => invoice'[j] = invoice[j]
      BY <1>1, <1>7
    <3> QED
      BY <1>12, <3>1, <3>2
  <2>2. \A n \in DOMAIN payments : payments[n].invoice \in Invoices
    BY <1>0, ReceivablesTyped
  <2>3. \A n \in DOMAIN payments' :
          /\ invoice'[payments'[n].invoice].status # "none"
          /\ invoice'[payments'[n].invoice].currency = Base => payments'[n].cash = payments'[n].amount
    BY <1>0, <1>1, <1>12, <2>2 DEF RowsAreOfInvoices
  <2>4. ASSUME NEW n \in DOMAIN credits' PROVE invoice'[credits'[n].invoice].status # "none"
    <3>1. CASE credits'[n] = p
      BY <1>1, <1>4, <1>12, <3>1
    <3>2. CASE n \in DOMAIN credits /\ credits'[n] = credits[n]
      <4>1. credits[n].invoice \in Invoices /\ invoice[credits[n].invoice].status # "none"
        BY <1>0, <3>2, ReceivablesTyped DEF RowsAreOfInvoices
      <4> QED
        BY <1>12, <3>2, <4>1
    <3> QED
      BY <1>10, <3>1, <3>2
  <2> QED
    BY <2>1, <2>3, <2>4 DEF RowsAreOfInvoices
<1>14. CreditsShare'
  <2>1. ASSUME NEW j \in Invoices
        PROVE  LET taken == invoice'[j].total * RevenueTaken(j)'
                   share == invoice'[j].credited * invoice'[j].net
                   round == invoice'[j].total * Cardinality(NotesOf(j))'
               IN /\ invoice'[j].credited = CreditedOf(j)'
                  /\ 2 * (taken - share) <= round /\ 2 * (share - taken) <= round
    <3>0. CreditedOf(j) \in Nat /\ RevenueTaken(j) \in Int /\ Cardinality(NotesOf(j)) \in Nat
      BY <1>0, CreditsTyped
    <3>1. CASE j = i
      <4>1. PICK t \in Nat \ {0}, a \in Int, c \in Int, n \in Int, k \in Int :
              /\ t = invoice[i].total /\ a = RevenueTaken(i) /\ c = invoice[i].credited
              /\ n = invoice[i].net /\ k = Cardinality(NotesOf(i))
        BY <1>2, <3>0, <3>1
      <4>2. 2 * (t * a - c * n) <= t * k /\ 2 * (c * n - t * a) <= t * k /\ c = CreditedOf(i)
        BY <1>0, <4>1 DEF CreditsShare
      <4>3. 2 * (t * revenue - amount * n) <= t /\ 2 * (amount * n - t * revenue) <= t
        BY <1>3, <4>1
      <4>4. /\ 2 * (t * (a + revenue) - (c + amount) * n) <= t * (k + 1)
            /\ 2 * ((c + amount) * n - t * (a + revenue)) <= t * (k + 1)
        BY <1>2, <1>3, <4>2, <4>3, ShareAdds
      <4>5. /\ invoice'[i].total = t /\ RevenueTaken(i)' = a + revenue /\ invoice'[i].credited = c + amount
            /\ invoice'[i].net = n /\ Cardinality(NotesOf(i))' = k + 1 /\ CreditedOf(i)' = c + amount
        BY <1>5, <1>7, <1>10, <4>1, <4>2
      <4> QED
        BY <3>1, <4>4, <4>5
    <3>2. CASE j # i
      <4>1. CreditedOf(j)' = CreditedOf(j) /\ RevenueTaken(j)' = RevenueTaken(j)
            /\ Cardinality(NotesOf(j))' = Cardinality(NotesOf(j))
        BY <1>10, <3>0, <3>2
      <4> QED
        BY <1>0, <1>7, <3>2, <4>1 DEF CreditsShare
    <3> QED
      BY <3>1, <3>2
  <2> QED
    BY <2>1 DEF CreditsShare
<1>15. /\ Outstanding(i) = invoice[i].total - (invoice[i].paid + invoice[i].credited)
       /\ Outstanding(i)' = invoice[i].total - (invoice[i].paid + invoice[i].credited) - amount
  <2>1. /\ invoice'[i].total = invoice[i].total /\ invoice'[i].paid = invoice[i].paid
        /\ invoice'[i].credited = invoice[i].credited + amount
    BY <1>5, <1>7
  <2>2. amount <= invoice[i].total - invoice[i].paid - invoice[i].credited
    BY <1>1
  <2>3. Outstanding(i) = invoice[i].total - (invoice[i].paid + invoice[i].credited)
    BY <1>2, <2>2 DEF Outstanding
  <2>4. Outstanding(i)' = invoice[i].total - (invoice[i].paid + invoice[i].credited) - amount
    BY <1>2, <2>1, <2>2 DEF Outstanding
  <2> QED
    BY <2>3, <2>4
<1>16. \A a \in Accounts, c \in Currencies : balances[a][c] \in Int
  BY <1>0, ReceivablesTyped
<1>17. /\ \A j : PaidOf(j)' = PaidOf(j)
       /\ CashTaken' = CashTaken /\ ClearedInBase' = ClearedInBase
       /\ ClearedInForeign' = ClearedInForeign /\ Realized' = Realized
  <2>1. \A n \in DOMAIN payments : payments[n].invoice \in Invoices
    BY <1>0, ReceivablesTyped
  <2>2. \A n \in DOMAIN payments : invoice'[payments[n].invoice].currency = invoice[payments[n].invoice].currency
    BY <1>12, <2>1
  <2> QED
    BY <1>1, <2>2, PaymentsKept
<1>18. ReceivableIsOutstanding'
  <2>1. ASSUME NEW c \in Currencies PROVE balances'["receivable"][c] = AgingTotal(c)'
    <3>1. AgingTotal(c) \in Int /\ AgingTotal(c)' = AgingTotal(c) + (Aged(i, c)' - Aged(i, c))
      BY <1>0, <1>7, <1>11, AgingMoves
    <3>2. Aged(i, c)' - Aged(i, c) = (IF c = cur THEN -amount ELSE 0)
      BY <1>2, <1>12, <1>15 DEF Aged
    <3>3. balances["receivable"][c] = AgingTotal(c)
      BY <1>0 DEF ReceivableIsOutstanding
    <3>4. balances'["receivable"][c] = balances["receivable"][c] + (IF c = cur THEN -amount ELSE 0)
      BY <1>6, <1>9 DEF Accounts
    <3> QED
      BY <3>1, <3>2, <3>3, <3>4
  <2>2. ASSUME NEW j \in Invoices
        PROVE  invoice'[j].paid + invoice'[j].credited <= invoice'[j].total /\ invoice'[j].paid = PaidOf(j)'
    <3>1. CASE j = i
      BY <1>0, <1>1, <1>2, <1>5, <1>7, <1>17, <3>1 DEF ReceivableIsOutstanding
    <3>2. CASE j # i
      BY <1>0, <1>7, <1>17, <3>2 DEF ReceivableIsOutstanding
    <3> QED
      BY <3>1, <3>2
  <2> QED
    BY <2>1, <2>2 DEF ReceivableIsOutstanding
<1>19. PaidIsSettled'
  <2>1. ASSUME NEW j \in Invoices, invoice'[j].status = "paid" PROVE Outstanding(j)' = 0
    <3>1. CASE j = i
      <4>1. Outstanding(i) = 0
        BY <1>0, <1>12, <2>1, <3>1 DEF PaidIsSettled
      <4> QED
        BY <1>1, <1>2, <1>15, <3>1, <4>1
    <3>2. CASE j # i
      BY <1>0, <1>7, <2>1, <3>2 DEF PaidIsSettled, Outstanding
    <3> QED
      BY <3>1, <3>2
  <2> QED
    BY <2>1 DEF PaidIsSettled
<1>20. SettlementsAreWhole'
  <2>1. ASSUME NEW c \in Currencies
        PROVE  /\ balances'["cash"][c] = balances["cash"][c]
               /\ balances'["receivable"][c] = balances["receivable"][c] - (IF c = cur THEN amount ELSE 0)
               /\ balances'["revenue"][c] = balances["revenue"][c] + (IF c = cur THEN revenue ELSE 0)
               /\ balances'["tax"][c] = balances["tax"][c] + (IF c = cur THEN amount - revenue ELSE 0)
               /\ balances'["clearing"][c] = balances["clearing"][c]
               /\ balances'["gain"][c] = balances["gain"][c]
    <3>1. /\ "cash" \in Accounts /\ "receivable" \in Accounts /\ "revenue" \in Accounts
          /\ "tax" \in Accounts /\ "clearing" \in Accounts /\ "gain" \in Accounts
      BY DEF Accounts
    <3>2. \A a \in Accounts : balances[a][c] \in Int
      BY <1>16
    <3>3. CASE c = cur
      <4>1. \A a \in Accounts : balances'[a][c] = balances[a][c] + Debit(e, a)
        BY <1>9, <3>3
      <4>2. /\ balances'["cash"][c] = balances["cash"][c] + 0
            /\ balances'["receivable"][c] = balances["receivable"][c] + (-amount)
            /\ balances'["revenue"][c] = balances["revenue"][c] + revenue
            /\ balances'["tax"][c] = balances["tax"][c] + (amount - revenue)
            /\ balances'["clearing"][c] = balances["clearing"][c] + 0
            /\ balances'["gain"][c] = balances["gain"][c] + 0
        BY ONLY <1>6, <3>1, <4>1
      <4>3. /\ balances["cash"][c] \in Int /\ balances["receivable"][c] \in Int
            /\ balances["clearing"][c] \in Int /\ balances["gain"][c] \in Int
        BY ONLY <3>1, <3>2
      <4> QED
        BY <1>2, <3>3, <4>2, <4>3
    <3>4. CASE c # cur
      <4>1. \A a \in Accounts : balances'[a][c] = balances[a][c] + 0
        BY <1>9, <3>4
      <4> QED
        BY <3>1, <3>2, <3>4, <4>1
    <3> QED
      BY <3>3, <3>4
  <2>2. Balanced'
    <3>1. ASSUME NEW c \in Currencies
          PROVE  balances'["cash"][c] + balances'["receivable"][c] + balances'["revenue"][c]
                   + balances'["tax"][c] + balances'["clearing"][c] + balances'["gain"][c] = 0
      <4>1. balances["cash"][c] + balances["receivable"][c] + balances["revenue"][c]
              + balances["tax"][c] + balances["clearing"][c] + balances["gain"][c] = 0
        BY <1>0 DEF SettlementsAreWhole, Balanced
      <4>2. /\ balances["cash"][c] \in Int /\ balances["receivable"][c] \in Int /\ balances["revenue"][c] \in Int
            /\ balances["tax"][c] \in Int /\ balances["clearing"][c] \in Int /\ balances["gain"][c] \in Int
        BY <1>16 DEF Accounts
      <4> QED
        BY <1>2, <1>3, <2>1, <4>1, <4>2
    <3> QED
      BY <3>1 DEF Balanced
  <2> QED
    BY <1>0, <1>17, <2>1, <2>2 DEF SettlementsAreWhole, Currencies
<1> QED
  BY <1>11, <1>13, <1>14, <1>18, <1>19, <1>20 DEF ReceivablesInv

\* Before the first invoice every sum is zero.
LEMMA ReceivablesInvInit == ReceivablesInit => ReceivablesInv
<1> SUFFICES ASSUME ReceivablesInit PROVE ReceivablesInv
  OBVIOUS
<1>1. /\ DOMAIN payments = {} /\ DOMAIN credits = {}
      /\ \A i \in Invoices : invoice[i] = NoInvoice
      /\ \A a \in Accounts, c \in Currencies : balances[a][c] = 0
  BY DEF ReceivablesInit
<1>2. /\ NoInvoice.status = "none" /\ NoInvoice.total = 0 /\ NoInvoice.net = 0 /\ NoInvoice.tax = 0
      /\ NoInvoice.paid = 0 /\ NoInvoice.credited = 0 /\ NoInvoice \in InvoiceRows
  BY DEF NoInvoice, InvoiceRows, Currencies
<1>3. ReceivablesShapes
  BY <1>2 DEF ReceivablesInit, ReceivablesShapes
<1>4. RowsAreOfInvoices
  BY <1>1, <1>2 DEF RowsAreOfInvoices
<1>5. /\ \A j : CreditedOf(j) = 0 /\ RevenueTaken(j) = 0 /\ PaidOf(j) = 0
      /\ CashTaken = 0 /\ ClearedInBase = 0 /\ ClearedInForeign = 0 /\ Realized = 0
  BY <1>1, SumEmpty
  DEF SumFunction, CreditedOf, RevenueTaken, PaidOf, CashTaken, ClearedInBase, ClearedInForeign, Realized
<1>6. \A j : Cardinality(NotesOf(j)) = 0
  BY <1>1, FS_EmptySet DEF NotesOf
<1>7. \A i \in Invoices : Outstanding(i) = 0
  BY <1>1, <1>2 DEF Outstanding
<1>8. \A c \in Currencies : AgingTotal(c) = 0
  <2> TAKE c \in Currencies
  <2> DEFINE f == [i \in Invoices |-> IF invoice[i].currency = c THEN Outstanding(i) ELSE 0]
  <2>1. (\A i \in Invoices : f[i] \in Int /\ f[i] = 0) /\ AgingTotal(c) = SumFunctionOnSet(f, Invoices)
    BY <1>7 DEF AgingTotal, SumFunction
  <2> HIDE DEF f
  <2>2. SumFunctionOnSet(f, Invoices) = SumFunctionOnSet(f, {})
    BY <2>1, SumWhere, ReceivablesAssumption
  <2> QED
    BY <2>1, <2>2, SumEmpty
<1>9. CreditsShare
  BY <1>1, <1>2, <1>5, <1>6 DEF CreditsShare
<1>10. ReceivableIsOutstanding
  BY <1>1, <1>2, <1>5, <1>8 DEF ReceivableIsOutstanding, Accounts
<1>11. PaidIsSettled
  BY <1>7 DEF PaidIsSettled
<1>12. SettlementsAreWhole
  BY <1>1, <1>5 DEF SettlementsAreWhole, Balanced, Accounts, Currencies
<1> QED
  BY <1>3, <1>4, <1>9, <1>10, <1>11, <1>12 DEF ReceivablesInv

\* A step that changes nothing keeps every sum.
LEMMA ReceivablesStutter ==
  ASSUME ReceivablesInv, UNCHANGED receivablesVars
  PROVE  ReceivablesInv'
<1>1. invoice' = invoice /\ payments' = payments /\ credits' = credits /\ balances' = balances
  BY DEF receivablesVars
<1>2. /\ \A j : PaidOf(j)' = PaidOf(j)
      /\ CashTaken' = CashTaken /\ ClearedInBase' = ClearedInBase
      /\ ClearedInForeign' = ClearedInForeign /\ Realized' = Realized
  BY <1>1, PaymentsKept
<1>3. \A j : CreditedOf(j)' = CreditedOf(j) /\ RevenueTaken(j)' = RevenueTaken(j) /\ NotesOf(j)' = NotesOf(j)
  BY <1>1 DEF CreditedOf, RevenueTaken, NotesOf
<1>4. \A j : Outstanding(j)' = Outstanding(j)
  BY <1>1 DEF Outstanding
<1>5. \A c : AgingTotal(c)' = AgingTotal(c)
  BY <1>1, <1>4 DEF AgingTotal
<1>6. ReceivablesShapes' /\ RowsAreOfInvoices'
  BY <1>1 DEF ReceivablesInv, ReceivablesShapes, RowsAreOfInvoices
<1>7. CreditsShare'
  BY <1>1, <1>3 DEF ReceivablesInv, CreditsShare
<1>8. ReceivableIsOutstanding' /\ PaidIsSettled'
  BY <1>1, <1>2, <1>4, <1>5 DEF ReceivablesInv, ReceivableIsOutstanding, PaidIsSettled
<1>9. SettlementsAreWhole'
  BY <1>1, <1>2 DEF ReceivablesInv, SettlementsAreWhole, Balanced
<1> QED
  BY <1>6, <1>7, <1>8, <1>9 DEF ReceivablesInv

\* Every operation keeps the invariant.
LEMMA ReceivablesInvNext == ReceivablesInv /\ [ReceivablesNext]_receivablesVars => ReceivablesInv'
<1> SUFFICES ASSUME ReceivablesInv, [ReceivablesNext]_receivablesVars PROVE ReceivablesInv'
  OBVIOUS
<1>1. ASSUME NEW i \in Invoices, NEW c \in Currencies, NEW r \in Rates \cup {<<1, 1>>}, NEW q \in Qtys,
             NEW p \in UnitPrices, NEW t \in TaxRates, NEW inc \in BOOLEAN,
             CreateInvoice(i, c, r, Line(q, p, t, inc))
      PROVE  ReceivablesInv'
  <2>1. PICK line : line = Line(q, p, t, inc)
    OBVIOUS
  <2>2. line.net \in Int /\ line.tax \in Int
    BY <2>1, LineInt
  <2> QED
    BY <1>1, <2>1, <2>2, CreateInvoiceStep
<1>2. ASSUME NEW i \in Invoices, NEW a \in Cash, RecordPayment(i, a) PROVE ReceivablesInv'
  BY <1>2, RecordPaymentStep
<1>3. ASSUME NEW i \in Invoices, NEW a \in Cash, CreditNote(i, a) PROVE ReceivablesInv'
  BY <1>3, CreditNoteStep
<1>4. ASSUME NEW i \in Invoices, NEW a \in Cash, NEW r \in Rates, RecordForeignPayment(i, a, r)
      PROVE  ReceivablesInv'
  BY <1>4, RecordForeignPaymentStep
<1>5. ASSUME NEW n \in DOMAIN payments, ReversePayment(n) PROVE ReceivablesInv'
  BY <1>5, ReversePaymentStep
<1>6. CASE UNCHANGED receivablesVars
  BY <1>6, ReceivablesStutter
<1> QED
  BY <1>1, <1>2, <1>3, <1>4, <1>5, <1>6 DEF ReceivablesNext

\* What is inductive says what the books promise.
LEMMA ReceivablesInvImplies ==
  ASSUME ReceivablesInv
  PROVE  ReceivablesReconcile
<1>0. /\ ReceivablesShapes /\ RowsAreOfInvoices /\ CreditsShare /\ ReceivableIsOutstanding /\ PaidIsSettled
      /\ SettlementsAreWhole
  BY DEF ReceivablesInv
<1>1. CreditsMirrorRevenue
  <2>1. ASSUME NEW i \in Invoices, invoice[i].total > 0, invoice[i].credited = invoice[i].total
        PROVE  2 * (RevenueTaken(i) - invoice[i].net) \in -Cardinality(NotesOf(i))..Cardinality(NotesOf(i))
    <3>1. PICK t \in Nat \ {0}, a \in Int, n \in Int, k \in Int :
            /\ t = invoice[i].total /\ a = RevenueTaken(i) /\ n = invoice[i].net /\ k = Cardinality(NotesOf(i))
      BY <1>0, <2>1, ReceivablesTyped, CreditsTyped
    <3>2. 2 * (t * a - t * n) <= t * k /\ 2 * (t * n - t * a) <= t * k
      BY <1>0, <2>1, <3>1 DEF CreditsShare
    <3>3. 2 * (a - n) <= k /\ 2 * (n - a) <= k
      BY <3>2, ShareCancels
    <3> QED
      BY <3>1, <3>3
  <2> QED
    BY <2>1 DEF CreditsMirrorRevenue
<1>2. StatementIsOutstanding
  <2>1. ASSUME \A n \in DOMAIN payments : Live(n), NEW c \in Currencies
        PROVE  StatementBalance(c) = AgingTotal(c)
    <3> DEFINE f == [i \in Invoices |-> IF invoice[i].currency = c
                                        THEN invoice[i].total - CreditedOf(i) - ReceivedOf(i) ELSE 0]
               g == [i \in Invoices |-> IF invoice[i].currency = c THEN Outstanding(i) ELSE 0]
    <3>1. \A i : ReceivedOf(i) = PaidOf(i)
      BY <2>1 DEF ReceivedOf, PaidOf
    <3>2. ASSUME NEW i \in Invoices
          PROVE  Outstanding(i) = invoice[i].total - CreditedOf(i) - ReceivedOf(i) /\ Outstanding(i) \in Int
      <4>1. invoice[i].credited = CreditedOf(i) /\ invoice[i].paid = PaidOf(i)
            /\ invoice[i].paid + invoice[i].credited <= invoice[i].total
        BY <1>0 DEF CreditsShare, ReceivableIsOutstanding
      <4>2. invoice[i].total \in Int /\ invoice[i].paid \in Int /\ invoice[i].credited \in Int
        BY <1>0, ReceivablesTyped
      <4> QED
        BY <3>1, <4>1, <4>2 DEF Outstanding
    <3>3. f = g
      BY <3>2
    <3> QED
      BY <3>3 DEF StatementBalance, AgingTotal
  <2> QED
    BY <2>1 DEF StatementIsOutstanding
<1> QED
  BY <1>0, <1>1, <1>2 DEF ReceivablesReconcile

\* However invoices are paid, credited and reversed, in parts and in two currencies,
\* the invoices, the accounts, the foreign settlements, the statuses and the customer
\* statement tell one story (recordPayment, reversePayment, creditNote).
THEOREM ReceivablesInvariance == ReceivablesSpec => []ReceivablesReconcile
<1>1. ReceivablesInit => ReceivablesInv
  BY ReceivablesInvInit
<1>2. ReceivablesInv /\ [ReceivablesNext]_receivablesVars => ReceivablesInv'
  BY ReceivablesInvNext
<1>3. ReceivablesInv => ReceivablesReconcile
  BY ReceivablesInvImplies
<1> QED
  BY <1>1, <1>2, <1>3, PTL DEF ReceivablesSpec

-----------------------------------------------------------------------------
(* The scenes.                                                             *)

\* A scene lasts: no step changes it.
LEMMA SceneLasts == [SceneNext]_sceneVars => UNCHANGED scene
  BY DEF SceneNext, sceneVars

\* In its scenes a behaviour of Commerce is one of SalesOrders, which their
\* bounds only narrow.
LEMMA SalesScenes ==
  SceneSpec => (scene \in {"SalesOrders", "SalesOrderLines", "SalesQuotes"} => Spec)
<1> DEFINE Selling == scene \in {"SalesOrders", "SalesOrderLines", "SalesQuotes"}
<1>1. SceneInit => (Selling => Init)
  BY DEF SceneInit
<1>2. [SceneNext]_sceneVars => (Selling => [Next]_vars)
  BY DEF SceneNext, sceneVars, vars
<1>3. [SceneNext]_sceneVars => (Selling => Selling')
  BY SceneLasts
<1> HIDE DEF Selling
<1>4. SceneSpec => (Selling => Spec)
  BY <1>1, <1>2, <1>3, PTL DEF SceneSpec, Spec
<1> QED
  BY <1>4 DEF Selling

\* The run's invariant: stock stays real, what is invoiced was shipped, the open
\* reservations are those of the open lines, and a quotation becomes at most one
\* order or invoice (confirmOrder, deliverOrder, cancelOrder, acceptQuote).
THEOREM CommerceSalesKeepTheirWord == SceneSpec => []SalesKeepTheirWord
<1> DEFINE Selling == scene \in {"SalesOrders", "SalesOrderLines", "SalesQuotes"}
<1>1. SceneSpec => (Selling => Spec)
  BY SalesScenes
<1>2. [SceneNext]_sceneVars => (Selling' => Selling)
  BY SceneLasts
<1>3. SalesKeepTheirWord <=> (Selling => OrdersKeepTheirWord)
  BY DEF SalesKeepTheirWord
<1> HIDE DEF Selling
<1> QED
  BY <1>1, <1>2, <1>3, WordsKept, PTL DEF SceneSpec

\* The run's action property: a confirmation and a reservation by hand promise no
\* more of an item than is on hand (salesConfirmOrder, inventoryReserveStock).
THEOREM CommerceSalesAreBacked == SceneSpec => SalesAreBacked
<1> DEFINE Selling == scene \in {"SalesOrders", "SalesOrderLines", "SalesQuotes"}
           Backed == scene \in {"SalesOrders", "SalesOrderLines"} => PromisesAreBacked
<1>1. SceneSpec => (Selling => Spec)
  BY SalesScenes
<1>2. [SceneNext]_sceneVars => (Selling' => Selling)
  BY SceneLasts
<1>3. ~Selling => Backed
  OBVIOUS
<1>4. IInv /\ [PromisesAreBacked]_vars => [Backed]_sceneVars
  <2>1. ASSUME IInv, UNCHANGED vars, NEW i
        PROVE  OpenReserved(i)' = OpenReserved(i) /\ OpenReserved(i) \in Nat
    BY <2>1, OpenReservedNat DEF vars, OpenReserved, Reserved, IInv
  <2>2. ASSUME IInv, UNCHANGED vars PROVE PromisesAreBacked
    BY <2>1, <2>2 DEF PromisesAreBacked
  <2> QED
    BY <2>2
<1>5. SalesAreBacked <=> [][Backed]_sceneVars
  BY DEF SalesAreBacked
<1> HIDE DEF Selling, Backed
<1> QED
  BY <1>1, <1>2, <1>3, <1>4, <1>5, Invariance, PromisesBacked, PTL DEF SceneSpec

\* In its scenes a behaviour of Commerce is one of PointOfSale.
LEMMA TillScenes ==
  SceneSpec => (scene \in {"PosSales", "PosShifts"} => TillSpec)
<1> DEFINE Selling == scene \in {"PosSales", "PosShifts"}
<1>1. SceneInit => (Selling => TillInit)
  BY DEF SceneInit
<1>2. [SceneNext]_sceneVars => (Selling => [TillNext]_tillVars)
  BY DEF SceneNext, sceneVars, tillVars
<1>3. [SceneNext]_sceneVars => (Selling => Selling')
  BY SceneLasts
<1> HIDE DEF Selling
<1>4. SceneSpec => (Selling => TillSpec)
  BY <1>1, <1>2, <1>3, PTL DEF SceneSpec, TillSpec
<1> QED
  BY <1>4 DEF Selling

\* The run's invariant: refunds add up to what was sold, and the books, the stock
\* and the drawer agree with the sales (completeSale, returnSale, closeSession).
THEOREM CommerceRegistersAreTrue == SceneSpec => []RegistersAreTrue
<1> DEFINE Selling == scene \in {"PosSales", "PosShifts"}
<1>1. SceneSpec => (Selling => TillSpec)
  BY TillScenes
<1>2. [SceneNext]_sceneVars => (Selling' => Selling)
  BY SceneLasts
<1>3. RegistersAreTrue <=> (Selling => TillIsTrue)
  BY DEF RegistersAreTrue
<1> HIDE DEF Selling
<1> QED
  BY <1>1, <1>2, <1>3, TillInvariance, PTL DEF SceneSpec

\* In its scenes a behaviour of Commerce is one of Receivables.
LEMMA ReceivablesScenes ==
  SceneSpec => (scene \in {"ReceivablesBase", "ReceivablesForeign"} => ReceivablesSpec)
<1> DEFINE Invoicing == scene \in {"ReceivablesBase", "ReceivablesForeign"}
<1>1. SceneInit => (Invoicing => ReceivablesInit)
  BY DEF SceneInit
<1>2. [SceneNext]_sceneVars => (Invoicing => [ReceivablesNext]_receivablesVars)
  BY DEF SceneNext, sceneVars, receivablesVars
<1>3. [SceneNext]_sceneVars => (Invoicing => Invoicing')
  BY SceneLasts
<1> HIDE DEF Invoicing
<1>4. SceneSpec => (Invoicing => ReceivablesSpec)
  BY <1>1, <1>2, <1>3, PTL DEF SceneSpec, ReceivablesSpec
<1> QED
  BY <1>4 DEF Invoicing

\* The run's invariant: invoices, accounts, settlements in foreign currency, statuses
\* and the customer statement agree (recordPayment, reversePayment, creditNote).
THEOREM CommerceInvoicesReconcile == SceneSpec => []InvoicesReconcile
<1> DEFINE Invoicing == scene \in {"ReceivablesBase", "ReceivablesForeign"}
<1>1. SceneSpec => (Invoicing => ReceivablesSpec)
  BY ReceivablesScenes
<1>2. [SceneNext]_sceneVars => (Invoicing' => Invoicing)
  BY SceneLasts
<1>3. InvoicesReconcile <=> (Invoicing => ReceivablesReconcile)
  BY DEF InvoicesReconcile
<1> HIDE DEF Invoicing
<1> QED
  BY <1>1, <1>2, <1>3, ReceivablesInvariance, PTL DEF SceneSpec
=============================================================================
