---- MODULE Offers ----
(* The components that work on the pool of offers and on what is drawn from   *)
(* it, side by side: as in People, each behaviour moves one of them.          *)
EXTENDS MarketDigest, OfferPreferences, Seniority, OfferCrawl, OfferIngestion,
        RegretIndex, SkillLabels, DigestContent

VARIABLE part

offersVars == <<part, marketVars, preferenceVars, seniorityVars, crawlVars, ingestionVars, regretVars,
                labelVars, contentVars>>

Parts == {"market", "preferences", "seniority", "crawl", "ingestion", "regret", "labels", "digest"}

\* The parts that are not explored stay in one of their initial states.
OffersInit ==
  /\ part \in Parts
  /\ part = "market" \/ confirmed = {}
  /\ part = "preferences" \/ (offer = FranceTravailOffer(PlainFrance) /\ wish = NoWish)
  /\ \/ part = "seniority"
     \/ /\ total = Unread /\ listed = "none" /\ chosen = FALSE
        /\ post = [entryLevel |-> FALSE, junior |-> FALSE, mentions |-> {}]
  /\ part = "crawl" \/ online = [ad \in Ads |-> <<Window[1], Abroad>>]
  /\ part = "regret" \/ indeedOn = FALSE
  /\ part = "digest" \/ cvKeys = {}
  /\ MarketInit /\ PreferenceInit /\ SeniorityInit /\ CrawlInit /\ IngestionInit
  /\ RegretInit /\ LabelInit /\ ContentInit

OnlyMoves(p) ==
  /\ part = p /\ UNCHANGED part
  /\ IF p = "market" THEN TRUE ELSE UNCHANGED marketVars
  /\ IF p = "preferences" THEN TRUE ELSE UNCHANGED preferenceVars
  /\ IF p = "seniority" THEN TRUE ELSE UNCHANGED seniorityVars
  /\ IF p = "crawl" THEN TRUE ELSE UNCHANGED crawlVars
  /\ IF p = "ingestion" THEN TRUE ELSE UNCHANGED ingestionVars
  /\ IF p = "regret" THEN TRUE ELSE UNCHANGED regretVars
  /\ IF p = "labels" THEN TRUE ELSE UNCHANGED labelVars
  /\ IF p = "digest" THEN TRUE ELSE UNCHANGED contentVars

OffersNext ==
  \/ OnlyMoves("market") /\ MarketNext
  \/ OnlyMoves("preferences") /\ PreferenceNext
  \/ OnlyMoves("seniority") /\ SeniorityNext
  \/ OnlyMoves("crawl") /\ CrawlNext
  \/ OnlyMoves("ingestion") /\ IngestionNext
  \/ OnlyMoves("regret") /\ RegretNext
  \/ OnlyMoves("labels") /\ LabelNext
  \/ OnlyMoves("digest") /\ ContentNext

OffersSpec == OffersInit /\ [][OffersNext]_offersVars

\* The component that moves keeps its variables in the types its module declares.
OffersTypeOK ==
  /\ part = "market" => CollectionTypeOK /\ DigestTypeOK
  /\ part = "preferences" => PreferenceTypeOK
  /\ part = "seniority" => SeniorityTypeOK
  /\ part = "crawl" => CrawlTypeOK
  /\ part = "ingestion" => IngestionTypeOK
  /\ part = "regret" => RegretTypeOK
  /\ part = "labels" => LabelTypeOK
  /\ part = "digest" => ContentTypeOK
====
