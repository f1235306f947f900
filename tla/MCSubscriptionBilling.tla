------------------------ MODULE MCSubscriptionBilling ------------------------
EXTENDS SubscriptionBilling
=============================================================================
